---- MODULE Spec2Model ----
(***************************************************************************)
(* Model of the inga-quants daily pipeline: the quality gates              *)
(* (pipeline/gates.py), the linear-model wrapper (pipeline/model.py), the  *)
(* watchlist builder (pipeline/watchlist.py), the orchestrator             *)
(* (pipeline/runner.py), the output/notification hand-off                  *)
(* (pipeline/output.py, pipeline/notify.py), the J-Quants client           *)
(* (pipeline/ingest.py) and the lock of the `run` command (cli.py).        *)
(*                                                                         *)
(* Real numbers are fixed-point integers with seven decimals (One = 1.0).  *)
(* The numerical libraries (scikit-learn fit/predict, scipy spearmanr,     *)
(* pandas quantile/corr) are not part of the repository: what they return  *)
(* on a given feature table is carried by the dataset record as the        *)
(* outcome of each library call, and the repository's own code around      *)
(* those calls is modelled as written.                                     *)
(***************************************************************************)
EXTENDS Integers, Sequences, FiniteSets, TLC

VARIABLES
    op,        \* name of the last operation that ran ("" before any)
    args,      \* its inputs
    ret,       \* what it returned / wrote
    procs,     \* the processes running the `run` command: position and exit
    run_lock,  \* the process holding the flock on logs/run.lock (0: nobody)
    cache_file \* the parquet bars cache on disk

vars == <<op, args, ret, procs, run_lock, cache_file>>

\* what lives outside a single library call: processes and files
world == <<procs, run_lock, cache_file>>

(***************************************************************************)
(* Fixed-point arithmetic and Python's number formatting                   *)
(***************************************************************************)

One == 10 * 1000 * 1000

None == <<>>

Some(v) == <<v>>

Abs(x) == IF x < 0 THEN -x ELSE x

Pow10(n) == IF n = 0 THEN 1 ELSE IF n = 1 THEN 10 ELSE IF n = 2 THEN 100
            ELSE IF n = 3 THEN 1000 ELSE IF n = 4 THEN 10000
            ELSE IF n = 5 THEN 100000 ELSE IF n = 6 THEN 1000000 ELSE 10000000

\* round(x, nd): to the nearest multiple of 10^-nd, ties to the even multiple
PyRound(x, nd) ==
    LET q  == One \div Pow10(nd)
        lo == (x \div q) * q
        r  == x - lo
    IN  IF 2 * r < q THEN lo
        ELSE IF 2 * r > q THEN lo + q
        ELSE IF (lo \div q) % 2 = 0 THEN lo ELSE lo + q

RECURSIVE Digits(_, _)
\* the last nd decimal digits of n, zero-padded
Digits(n, nd) == IF nd = 0 THEN "" ELSE Digits(n \div 10, nd - 1) \o ToString(n % 10)

\* f"{x:.<nd>f}"
FmtF(x, nd) ==
    LET m == Abs(PyRound(x, nd)) \div (One \div Pow10(nd))
    IN  (IF x < 0 THEN "-" ELSE "")
        \o ToString(m \div Pow10(nd))
        \o (IF nd = 0 THEN "" ELSE "." \o Digits(m % Pow10(nd), nd))

\* f"{x:.<nd>%}"
FmtPct(x, nd) == FmtF(100 * x, nd) \o "%"

RECURSIVE StripZeros(_, _)
\* the decimals of repr(float): trailing zeros dropped, one digit kept
StripZeros(n, nd) ==
    IF nd > 1 /\ n % 10 = 0 THEN StripZeros(n \div 10, nd - 1) ELSE Digits(n, nd)

\* f"{x}" of a float
Repr(x) ==
    (IF x < 0 THEN "-" ELSE "") \o ToString(Abs(x) \div One) \o "."
        \o StripZeros(Abs(x) % One, 7)

RECURSIVE SumSeq(_)
SumSeq(s) == IF s = <<>> THEN 0 ELSE Head(s) + SumSeq(Tail(s))

RECURSIVE Insert(_, _)
Insert(x, s) ==
    IF s = <<>> THEN <<x>>
    ELSE IF x <= Head(s) THEN <<x>> \o s
    ELSE <<Head(s)>> \o Insert(x, Tail(s))

RECURSIVE Sorted(_)
Sorted(s) == IF s = <<>> THEN <<>> ELSE Insert(Head(s), Sorted(Tail(s)))

\* np.median: the middle value, or the mean of the two middle values
Median(s) ==
    LET t == Sorted(s)
        n == Len(t)
    IN  IF n % 2 = 1 THEN t[(n + 1) \div 2]
        ELSE (t[n \div 2] + t[n \div 2 + 1]) \div 2

\* np.mean
Mean(s) == SumSeq(s) \div Len(s)

(***************************************************************************)
(* pipeline/model.py                                                       *)
(***************************************************************************)

TARGET_COL == "forward_return_5d"

\* The outcome of a call that may raise: a value, or the exception text.
Ok(v) == [ok |-> TRUE, val |-> v]

Raise(msg) == [ok |-> FALSE, err |-> msg]

\* train_model on n_rows target-non-null rows; fit is what the library's
\* scaler/regressor do with those rows (a TrainResult's coefficients, or the
\* exception they raise).
train_model(n_rows, fit) ==
    IF n_rows = 0 THEN Raise("No training rows with known forward_return_5d")
    ELSE fit

(***************************************************************************)
(* pipeline/gates.py: the individual gates                                 *)
(*                                                                         *)
(* A dataset record D describes one feature table:                         *)
(*   n_dates, n_tickers  distinct dates / tickers among target-non-null    *)
(*                       rows (no such row iff n_dates = 0)                *)
(*   columns             the feature columns the table has, and TARGET_COL *)
(*                       when it has the target column                     *)
(*   n_eligible          rows whose as_of is the decision date             *)
(*   n_missing           those of them with a null in a requested feature  *)
(*   future_rows         rows whose as_of is after the decision date       *)
(*   corr                feature -> [defined, val]: Pearson correlation    *)
(*                       with the target (defined iff both std() > 0)      *)
(*   fold_fit            per walk-forward fold: the test-block IC that     *)
(*                       train_model/predict/_spearman_ic give, or the     *)
(*                       exception raised                                  *)
(*   cv_fit              the same for the ticker-split hold-out            *)
(*   full_fit            the fit on all target-non-null rows               *)
(*   days                per date, in date order: [n, top, gross], the     *)
(*                       rows of that date, the rows at or above the 90th  *)
(*                       percentile of the prediction, their mean target   *)
(*   win_fit             per stability window: the coefficient vector      *)
(*                       fitted, or the exception raised                   *)
(***************************************************************************)

GateResult(name, passed, details, reason) ==
    [name |-> name, passed |-> passed, details |-> details, reason |-> reason]

NRows(D) == D.n_dates * D.n_tickers

Min(a, b) == IF a < b THEN a ELSE b

Max(a, b) == IF a > b THEN a ELSE b

\* Mutation: the slice starts one date early
DateSlice_FromLo(n, lo, hi) == { d \in 1..n : lo <= d /\ d <= hi }

\* dates[lo:hi] of the sorted distinct dates 1..n (Python slice, 0-based)
DateSlice(n, lo, hi) == { d \in 1..n : lo < d /\ d <= hi }

\* The folds gate_walk_forward evaluates: fold k trains on dates[:(k+1)*fold_size]
\* and tests on dates[(k+1)*fold_size:(k+2)*fold_size]; a fold with no test
\* date is skipped.
WfFolds(n_dates, n_splits) ==
    LET fold_size == n_dates \div (n_splits + 1)
        fold(k) == [k |-> k,
                    train_dates |-> DateSlice(n_dates, 0, (k + 1) * fold_size),
                    test_dates  |-> DateSlice(n_dates, (k + 1) * fold_size,
                                              (k + 2) * fold_size)]
        F[k \in 0..n_splits] ==
            IF k = n_splits THEN <<>>
            ELSE IF fold(k).test_dates = {} THEN F[k + 1]
            ELSE <<fold(k)>> \o F[k + 1]
    IN  F[0]

\* Mutation: a fold whose training raises counts as IC 1.0
FoldIC_FailAsOne(D, f) ==
    LET r == train_model(Cardinality(f.train_dates) * D.n_tickers, D.fold_fit[f.k + 1])
    IN  IF r.ok THEN r.val ELSE One

\* One fold's IC: an exception in train_model or predict counts as 0.0
FoldIC(D, f) ==
    LET r == train_model(Cardinality(f.train_dates) * D.n_tickers, D.fold_fit[f.k + 1])
    IN  IF r.ok THEN r.val ELSE 0

\* Mutation: the comparison is not strict
WfPassed_Ge(median_ic, threshold) == median_ic >= threshold

WfPassed(median_ic, threshold) == median_ic > threshold

gate_walk_forward(D, threshold, n_splits) ==
    IF D.n_dates < n_splits * 2
    THEN GateResult("walk_forward", FALSE,
                    [ic |-> None, threshold |-> threshold,
                     n_splits_available |-> D.n_dates],
                    "insufficient data for walk-forward splits")
    ELSE
        LET folds == WfFolds(D.n_dates, n_splits)
            ics == [i \in 1..Len(folds) |-> FoldIC(D, folds[i])]
            median_ic == IF ics # <<>> THEN Median(ics) ELSE 0
            passed == WfPassed(median_ic, threshold)
        IN  GateResult("walk_forward", passed,
                       [ic |-> Some(PyRound(median_ic, 6)), threshold |-> threshold,
                        fold_ics |-> [i \in 1..Len(ics) |-> PyRound(ics[i], 6)]],
                       IF passed THEN ""
                       ELSE "WF IC " \o FmtF(median_ic, 4) \o " <= threshold "
                            \o Repr(threshold))

\* Mutation: the comparison is turned around
CvPassed_Lt(ic, threshold) == ic < threshold

CvPassed(ic, threshold) == ic > threshold

\* Mutation: four tickers are enough for the hold-out
gate_ticker_split_cv_Min4(D, threshold, test_frac) ==
    IF D.n_tickers < 4
    THEN GateResult("ticker_split_cv", FALSE,
                    [ic |-> None, threshold |-> threshold],
                    "too few tickers (" \o ToString(D.n_tickers)
                        \o ") for ticker-split CV")
    ELSE
        LET n_test == Max(1, (D.n_tickers * test_frac) \div One)
            r == train_model((D.n_tickers - n_test) * D.n_dates, D.cv_fit)
        IN  IF ~r.ok
            THEN GateResult("ticker_split_cv", FALSE, [ic |-> None],
                            "ticker CV failed: " \o r.err)
            ELSE
                LET passed == CvPassed(r.val, threshold)
                IN  GateResult("ticker_split_cv", passed,
                               [ic |-> Some(PyRound(r.val, 6)), threshold |-> threshold,
                                n_test_tickers |-> n_test],
                               IF passed THEN ""
                               ELSE "ticker CV IC " \o FmtF(r.val, 4)
                                    \o " <= threshold " \o Repr(threshold))

gate_ticker_split_cv(D, threshold, test_frac) ==
    IF D.n_tickers < 5
    THEN GateResult("ticker_split_cv", FALSE,
                    [ic |-> None, threshold |-> threshold],
                    "too few tickers (" \o ToString(D.n_tickers)
                        \o ") for ticker-split CV")
    ELSE
        LET n_test == Max(1, (D.n_tickers * test_frac) \div One)
            r == train_model((D.n_tickers - n_test) * D.n_dates, D.cv_fit)
        IN  IF ~r.ok
            THEN GateResult("ticker_split_cv", FALSE, [ic |-> None],
                            "ticker CV failed: " \o r.err)
            ELSE
                LET passed == CvPassed(r.val, threshold)
                IN  GateResult("ticker_split_cv", passed,
                               [ic |-> Some(PyRound(r.val, 6)), threshold |-> threshold,
                                n_test_tickers |-> n_test],
                               IF passed THEN ""
                               ELSE "ticker CV IC " \o FmtF(r.val, 4)
                                    \o " <= threshold " \o Repr(threshold))

CostName(bps) == "cost_" \o ToString(bps) \o "bps"

\* A Python dict as a sequence of [key, val] in insertion order
RECURSIVE DictHas(_, _)
DictHas(d, k) == d # <<>> /\ (Head(d).key = k \/ DictHas(Tail(d), k))

RECURSIVE DictGet(_, _)
DictGet(d, k) == IF Head(d).key = k THEN Head(d).val ELSE DictGet(Tail(d), k)

\* d[k] = v: an existing key keeps its position
DictSet(d, k, v) ==
    IF DictHas(d, k)
    THEN [i \in 1..Len(d) |-> IF d[i].key = k THEN [key |-> k, val |-> v] ELSE d[i]]
    ELSE Append(d, [key |-> k, val |-> v])

\* Mutation: the cost is added to the gross return
DailyNet_AddCost(day, cost) ==
    IF day.n < 5 THEN <<>>
    ELSE IF day.top = 0 THEN <<>>
    ELSE <<day.gross + cost>>

\* net return of one date at cost `cost`, or nothing when the date is skipped
DailyNet(day, cost) ==
    IF day.n < 5 THEN <<>>
    ELSE IF day.top = 0 THEN <<>>
    ELSE <<day.gross - cost>>

RECURSIVE DailyReturns(_, _)
DailyReturns(days, cost) ==
    IF days = <<>> THEN <<>>
    ELSE DailyNet(Head(days), cost) \o DailyReturns(Tail(days), cost)

CostPassed(cum_ret) == cum_ret > 0

CostGate(D, bps) ==
    LET cost == (bps * One) \div 10000
        daily_returns == DailyReturns(D.days, cost)
        cum_ret == SumSeq(daily_returns)
        passed == CostPassed(cum_ret)
    IN  GateResult(CostName(bps), passed,
                   [net_return |-> PyRound(cum_ret, 6), cost_bps |-> bps,
                    n_days |-> Len(daily_returns)],
                   IF passed THEN ""
                   ELSE "net return " \o FmtF(cum_ret, 4) \o " <= 0 at "
                        \o ToString(bps) \o "bps cost")

CostResult(D, r, bps) ==
    IF r.ok THEN CostGate(D, bps)
    ELSE GateResult(CostName(bps), FALSE, <<>>,
                    "model train failed for cost test: " \o r.err)

RECURSIVE CostDict(_, _, _, _)
\* results[name] = ... for bps in cost_bps_list, in list order
CostDict(D, r, bps_list, results) ==
    IF bps_list = <<>> THEN results
    ELSE CostDict(D, r, Tail(bps_list),
                  DictSet(results, CostName(Head(bps_list)),
                          CostResult(D, r, Head(bps_list))))

gate_cost_test(D, cost_bps_list) ==
    CostDict(D, train_model(NRows(D), D.full_fit), cost_bps_list, <<>>)

ISqrt(n) == CHOOSE r \in 0..n : r * r <= n /\ n < (r + 1) * (r + 1)

Dot(a, b) == SumSeq([i \in 1..Len(a) |-> a[i] * b[i]])

\* np.linalg.norm; the coefficient vectors of the datasets have whole norms
Norm(a) == ISqrt(Dot(a, a))

cosine_similarity(a, b) ==
    IF Norm(a) = 0 \/ Norm(b) = 0 THEN 0
    ELSE (Dot(a, b) * One) \div (Norm(a) * Norm(b))

RECURSIVE TrainedWindows(_, _, _)
\* the coefficient vectors of the windows whose training did not raise
TrainedWindows(D, window, fits) ==
    IF fits = <<>> THEN <<>>
    ELSE LET r == train_model(window * D.n_tickers, Head(fits))
         IN  (IF r.ok THEN <<r.val>> ELSE <<>>)
             \o TrainedWindows(D, window, Tail(fits))

\* sims of every pair i < j, in the order of the two nested loops
PairSims(vs) ==
    LET row(i) == [j \in 1..(Len(vs) - i) |-> cosine_similarity(vs[i], vs[i + j])]
        P[i \in 1..(Len(vs) + 1)] ==
            IF i > Len(vs) THEN <<>> ELSE row(i) \o P[i + 1]
    IN  P[1]

StabPassed(mean_sim, threshold) == mean_sim > threshold

gate_param_stability(D, threshold, n_windows) ==
    LET window == D.n_dates \div n_windows
    IN  IF window < 10
        THEN GateResult("param_stability", FALSE,
                        [cosine_sim |-> None, threshold |-> threshold],
                        "insufficient data for parameter stability test")
        ELSE
            LET coef_vectors == TrainedWindows(D, window, SubSeq(D.win_fit, 1, n_windows))
            IN  IF Len(coef_vectors) < 2
                THEN GateResult("param_stability", FALSE, [cosine_sim |-> None],
                                "not enough windows trained successfully")
                ELSE
                    LET mean_sim == Mean(PairSims(coef_vectors))
                        passed == StabPassed(mean_sim, threshold)
                    IN  GateResult("param_stability", passed,
                                   [cosine_sim |-> Some(PyRound(mean_sim, 6)),
                                    threshold |-> threshold,
                                    n_windows |-> Len(coef_vectors)],
                                   IF passed THEN ""
                                   ELSE "param stability " \o FmtF(mean_sim, 4)
                                        \o " <= threshold " \o Repr(threshold))

\* str(date): dates are day numbers
DateStr(d) == "day" \o ToString(d)

RECURSIVE Join(_, _)
\* sep.join(parts)
Join(sep, parts) ==
    IF parts = <<>> THEN ""
    ELSE IF Len(parts) = 1 THEN Head(parts)
    ELSE Head(parts) \o sep \o Join(sep, Tail(parts))

\* Mutation: only a positive correlation is suspicious
CorrIssues_Signed(D, feature_names) ==
    LET kept == SelectSeq(feature_names,
                          LAMBDA feat : /\ feat \in D.columns
                                        /\ D.corr[feat].defined
                                        /\ D.corr[feat].val > (99 * One) \div 100)
    IN  [i \in 1..Len(kept) |->
            "feature '" \o kept[i] \o "' has suspicious corr="
                \o FmtF(D.corr[kept[i]].val, 4) \o " with target"]

RECURSIVE CorrIssues(_, _)
\* the loop over feature_names: a feature the table lacks is skipped, and so
\* is one whose correlation is undefined (a std() of 0)
CorrIssues(D, feature_names) ==
    IF feature_names = <<>> THEN <<>>
    ELSE LET feat == Head(feature_names)
             rest == CorrIssues(D, Tail(feature_names))
         IN  IF feat \notin D.columns THEN rest
             ELSE IF D.corr[feat].defined /\ Abs(D.corr[feat].val) > (99 * One) \div 100
             THEN <<"feature '" \o feat \o "' has suspicious corr="
                        \o FmtF(D.corr[feat].val, 4) \o " with target">> \o rest
             ELSE rest

gate_leak_detection(D, feature_names, as_of) ==
    LET issues ==
            (IF D.future_rows > 0
             THEN <<ToString(D.future_rows) \o " rows have as_of > cutoff ("
                        \o DateStr(as_of) \o ")">>
             ELSE <<>>)
            \o (IF TARGET_COL \in D.columns THEN CorrIssues(D, feature_names)
                ELSE <<>>)
        passed == Len(issues) = 0
    IN  GateResult("leak_detection", passed, [issues |-> issues],
                   IF issues # <<>> THEN Join("; ", issues) ELSE "")

(***************************************************************************)
(* pipeline/gates.py: run_all_gates                                        *)
(***************************************************************************)

\* gate_cfg.get(key, default): gate_cfg is a record holding the keys set
CfgGet(gate_cfg, key, default) ==
    IF key \in DOMAIN gate_cfg THEN gate_cfg[key] ELSE default

N_SPLITS == 3

N_WINDOWS == 3

TEST_FRAC == (2 * One) \div 10

\* the " \u2014 " (em dash) between a gate's name and its reason
Dash == " -- "

RECURSIVE Dedup(_, _)
\* list(dict.fromkeys(xs)): first occurrences, in order
Dedup(xs, seen) ==
    IF xs = <<>> THEN <<>>
    ELSE IF Head(xs) \in seen THEN Dedup(Tail(xs), seen)
    ELSE <<Head(xs)>> \o Dedup(Tail(xs), seen \cup {Head(xs)})

\* rejection_reasons.append(...) when the check failed
RejectIf(failed, reason) == IF failed THEN <<reason>> ELSE <<>>

EligibleReason(n_eligible, min_eligible) ==
    "n_eligible=" \o ToString(n_eligible) \o " < " \o ToString(min_eligible)

MissingReason(missing_rate, missing_threshold) ==
    "missing_rate=" \o FmtPct(missing_rate, 2) \o " > " \o FmtPct(missing_threshold, 0)

GateReason(name, g) == "gate:" \o name \o Dash \o g.reason

ConfidenceReason(wf_ic, confidence_threshold) ==
    "confidence=" \o FmtF(wf_ic, 4) \o " < threshold " \o Repr(confidence_threshold)

RECURSIVE CostRejections(_)
CostRejections(cost_results) ==
    IF cost_results = <<>> THEN <<>>
    ELSE RejectIf(~Head(cost_results).val.passed,
                  GateReason(Head(cost_results).key, Head(cost_results).val))
         \o CostRejections(Tail(cost_results))

RECURSIVE DictUpdate(_, _)
\* gates[name] = cr for name, cr in items
DictUpdate(d, items) ==
    IF items = <<>> THEN d
    ELSE DictUpdate(DictSet(d, Head(items).key, Head(items).val), Tail(items))

\* wf.details.get("ic") or 0.0
WfIcOrZero(wf) == IF wf.details.ic = None THEN 0 ELSE wf.details.ic[1]

\* Mutation: the confidence check is skipped
ConfidenceFails_Never(wf_ic, confidence_threshold) == FALSE

ConfidenceFails(wf_ic, confidence_threshold) == wf_ic < confidence_threshold

\* Mutation: the missing-rate pre-flight check is not recorded
CollectReasons_NoMissing(pre_eligible, pre_missing, wf_r, cv_r, cost_r, stab_r, leak_r, conf_r) ==
    pre_eligible \o wf_r \o cv_r \o cost_r \o stab_r \o leak_r \o conf_r

\* Mutation: the confidence check is evaluated right after the walk-forward gate
CollectReasons_ConfEarly(pre_eligible, pre_missing, wf_r, cv_r, cost_r, stab_r, leak_r, conf_r) ==
    pre_eligible \o pre_missing \o wf_r \o conf_r \o cv_r \o cost_r \o stab_r \o leak_r

\* The reasons in the order run_all_gates appends them
CollectReasons(pre_eligible, pre_missing, wf_r, cv_r, cost_r, stab_r, leak_r, conf_r) ==
    pre_eligible \o pre_missing \o wf_r \o cv_r \o cost_r \o stab_r \o leak_r \o conf_r

AllPassed(rejection_reasons) == Len(rejection_reasons) = 0

run_all_gates(D, feature_names, as_of, gate_cfg) ==
    LET wf_threshold == CfgGet(gate_cfg, "wf_ic_threshold", One \div 100)
        cv_threshold == CfgGet(gate_cfg, "ticker_cv_ic_threshold", 0)
        stability_threshold == CfgGet(gate_cfg, "param_stability_threshold", (70 * One) \div 100)
        cost_bps == CfgGet(gate_cfg, "cost_bps", <<5, 15>>)
        missing_threshold == CfgGet(gate_cfg, "missing_rate_threshold", (20 * One) \div 100)
        min_eligible == CfgGet(gate_cfg, "min_eligible_stocks", 5)
        confidence_threshold == CfgGet(gate_cfg, "confidence_threshold", (5 * One) \div 1000)
        n_eligible == D.n_eligible
        missing_rate == IF n_eligible > 0 THEN (D.n_missing * One) \div n_eligible
                        ELSE One
        wf == gate_walk_forward(D, wf_threshold, N_SPLITS)
        cv == gate_ticker_split_cv(D, cv_threshold, TEST_FRAC)
        cost_results == gate_cost_test(D, cost_bps)
        stab == gate_param_stability(D, stability_threshold, N_WINDOWS)
        leak == gate_leak_detection(D, feature_names, as_of)
        gates == DictSet(DictSet(DictUpdate(DictSet(DictSet(<<>>,
                     "walk_forward", wf), "ticker_split_cv", cv), cost_results),
                     "param_stability", stab), "leak_detection", leak)
        wf_ic == WfIcOrZero(wf)
        rejection_reasons ==
            CollectReasons(
                RejectIf(n_eligible < min_eligible,
                         EligibleReason(n_eligible, min_eligible)),
                RejectIf(missing_rate > missing_threshold,
                         MissingReason(missing_rate, missing_threshold)),
                RejectIf(~wf.passed, GateReason("walk_forward", wf)),
                RejectIf(~cv.passed, GateReason("ticker_split_cv", cv)),
                CostRejections(cost_results),
                RejectIf(~stab.passed, GateReason("param_stability", stab)),
                RejectIf(~leak.passed, GateReason("leak_detection", leak)),
                RejectIf(ConfidenceFails(wf_ic, confidence_threshold),
                         ConfidenceReason(wf_ic, confidence_threshold)))
    IN  \* day_features[feature_names] raises KeyError on a column the table lacks
        IF n_eligible > 0 /\ \E i \in 1..Len(feature_names) : feature_names[i] \notin D.columns
        THEN Raise("KeyError")
        ELSE Ok([all_passed |-> AllPassed(rejection_reasons),
                 gates |-> gates,
                 rejection_reasons |-> Dedup(rejection_reasons, {}),
                 missing_rate |-> missing_rate,
                 n_eligible |-> n_eligible])

(***************************************************************************)
(* Feature tables and configurations the operations are applied to         *)
(***************************************************************************)

MaxEligible == 5

MaxDates == 30

MaxTickers == 5

FeatureNames == <<"ret_1d", "ret_20d">>

\* the feature_names a caller asks for: the table's columns, or those and a
\* column the table does not have
RequestedNames == {FeatureNames, FeatureNames \o <<"liq_score">>}

AllColumns == {"ret_1d", "ret_20d"}

\* a value with the given number of ten-thousandths (0.0001)
E4(n) == n * (One \div 10000)

\* [n_eligible, n_missing] of the decision date
EligiblePairs ==
    {<<0, 0>>, <<MaxEligible - 1, 1>>, <<MaxEligible, 0>>, <<MaxEligible, 1>>,
     <<MaxEligible, 2>>}

\* [n_dates, n_tickers] of the target-non-null rows
Shapes == {<<0, 0>>, <<2 * N_SPLITS, 4>>, <<2 * N_SPLITS, MaxTickers>>,
           <<MaxDates, MaxTickers>>}

FitError == Raise("Input contains NaN.")

\* Fold outcomes: median 0.02; median 0.003 (between 0 and the confidence
\* default); median 0.0049996 (rounds to 0.005); median 0.01 (the default
\* threshold itself); a failing fold and median 0.0; median -0.02
FoldFits ==
    {<<Ok(E4(200)), Ok(E4(300)), Ok(E4(100))>>,
     <<Ok(E4(30)), Ok(E4(-100)), Ok(E4(200))>>,
     <<Ok(E4(50) - 4), Ok(E4(-100)), Ok(E4(200))>>,
     <<Ok(E4(100)), Ok(E4(100)), Ok(E4(300))>>,
     <<FitError, Ok(E4(-100)), Ok(E4(200))>>,
     <<Ok(E4(-200)), Ok(E4(-300)), FitError>>}

CvFits == {FitError, Ok(0), Ok(E4(100))}

\* [full_fit, gross]: the fit on all rows and the gross return of every day
CostFits == {<<FitError, 0>>, <<Ok(<<3, 4>>), E4(10)>>, <<Ok(<<3, 4>>), E4(20)>>}

WinFits ==
    {<<Ok(<<3, 4>>), Ok(<<3, 4>>), Ok(<<3, 4>>)>>,
     <<Ok(<<3, 4>>), Ok(<<-3, -4>>), Ok(<<3, 4>>)>>,
     <<FitError, Ok(<<3, 4>>), FitError>>,
     <<Ok(<<3, 4>>), FitError, Ok(<<3, 4>>)>>}

CleanCorr == [f \in AllColumns |-> [defined |-> TRUE, val |-> E4(3000)]]

LeakyCorr == [CleanCorr EXCEPT !["ret_20d"] = [defined |-> TRUE, val |-> E4(-9950)]]

\* [future_rows, corr]
Leaks == {<<0, CleanCorr>>, <<1, LeakyCorr>>}

MkDataset(columns, e, s, ff, cv, cf, wf, lk) ==
    [columns |-> columns \cup {TARGET_COL},
     n_eligible |-> e[1], n_missing |-> e[2],
     n_dates |-> s[1], n_tickers |-> s[2],
     future_rows |-> lk[1],
     corr |-> IF s[1] = 0 THEN [f \in AllColumns |-> [defined |-> FALSE, val |-> 0]]
              ELSE lk[2],
     fold_fit |-> ff, cv_fit |-> cv,
     full_fit |-> cf[1],
     days |-> [i \in 1..s[1] |-> [n |-> s[2], top |-> 1, gross |-> cf[2]]],
     win_fit |-> wf]

Datasets ==
    { MkDataset(AllColumns, e, s, ff, cv, cf, wf, lk) :
        e \in EligiblePairs, s \in Shapes, ff \in FoldFits, cv \in CvFits,
        cf \in CostFits, wf \in WinFits, lk \in Leaks }

\* gate_cfg mappings: the defaults; a walk-forward bar below the confidence
\* bar and a repeated cost level; everything lenient
GateCfgs ==
    {<<>>,
     [wf_ic_threshold |-> 0, cost_bps |-> <<15, 5, 15>>, min_eligible_stocks |-> 2],
     [wf_ic_threshold |-> E4(-100), ticker_cv_ic_threshold |-> -One,
      param_stability_threshold |-> -One, cost_bps |-> <<>>,
      missing_rate_threshold |-> One, min_eligible_stocks |-> 0,
      confidence_threshold |-> E4(-100)]}

\* the last day number a decision date takes
MaxDay == 7

(***************************************************************************)
(* Specification of run_all_gates: a caller applies it to any feature      *)
(* table under any configuration, and the call returns.                    *)
(***************************************************************************)

Idle == op = "idle"

\* the number of processes that invoke the `run` command
NProcs == 3

\* no cache file at cache_path
NoFile == [exists |-> FALSE, readable |-> TRUE, rows |-> <<>>]

Procs == 1..NProcs

\* a process that has not entered _cmd_run: no exit code, run_pipeline not called
NotStarted == [pc |-> "start", rc |-> None, called |-> FALSE, outcome |-> "none"]

InitIdle ==
    /\ op = "idle" /\ args = <<>> /\ ret = <<>>
    /\ procs = [p \in Procs |-> NotStarted]
    /\ run_lock = 0
    /\ cache_file = NoFile

Return ==
    /\ op # "idle" /\ op' = "idle" /\ args' = <<>> /\ ret' = <<>>
    /\ UNCHANGED world

CallRunAllGates ==
    /\ Idle /\ UNCHANGED world
    /\ \E D \in Datasets, feature_names \in RequestedNames, gate_cfg \in GateCfgs :
        /\ op' = "run_all_gates"
        /\ args' = [D |-> D, feature_names |-> feature_names, as_of |-> MaxDay,
                    gate_cfg |-> gate_cfg]
        /\ ret' = run_all_gates(D, feature_names, MaxDay, gate_cfg)

NextAllGates == CallRunAllGates \/ Return

SpecAllGates == InitIdle /\ [][NextAllGates]_vars

(***************************************************************************)
(* Specification of the individual gates: each is applied to a feature     *)
(* table at two thresholds, t and t2.                                      *)
(***************************************************************************)

MaxSplits == 3

MaxWfDates == 8

MaxCvTickers == 6

MaxDays == 2

MaxWindows == 3

\* the sequences of length n over S
SeqsOfLen(S, n) == [1..n -> S]

\* IC thresholds and outcomes: -0.01, 0.0, 0.01 and 0.0100004
Thresholds == {E4(-100), 0, E4(100)}

ICOutcomes == {FitError, Ok(E4(-100)), Ok(0), Ok(E4(100)), Ok(E4(100) + 4)}

CallGateWalkForward ==
    /\ Idle /\ UNCHANGED world
    /\ \E n_dates \in 0..MaxWfDates, n_splits \in 1..MaxSplits, t \in Thresholds,
          t2 \in Thresholds :
        \E fold_fit \in SeqsOfLen(ICOutcomes \ {Ok(E4(-100))}, n_splits) :
            LET D == [n_dates |-> n_dates, n_tickers |-> IF n_dates = 0 THEN 0 ELSE 5,
                      fold_fit |-> fold_fit]
            IN  /\ op' = "gate_walk_forward"
                /\ args' = [D |-> D, n_splits |-> n_splits, t |-> t, t2 |-> t2]
                /\ ret' = [r |-> gate_walk_forward(D, t, n_splits),
                           r2 |-> gate_walk_forward(D, t2, n_splits)]

CallGateTickerSplitCv ==
    /\ Idle /\ UNCHANGED world
    /\ \E n_tickers \in 3..MaxCvTickers, cv_fit \in ICOutcomes,
          test_frac \in {TEST_FRAC, One \div 2}, t \in Thresholds, t2 \in Thresholds :
            LET D == [n_dates |-> 1, n_tickers |-> n_tickers, cv_fit |-> cv_fit]
            IN  /\ op' = "gate_ticker_split_cv"
                /\ args' = [D |-> D, test_frac |-> test_frac, t |-> t, t2 |-> t2]
                /\ ret' = [r |-> gate_ticker_split_cv(D, t, test_frac),
                           r2 |-> gate_ticker_split_cv(D, t2, test_frac)]

\* one date of the cost test: 4 or 5 rows, gross top-decile return of
\* -10, 5, 15 or 25 basis points
CostDays == [n : {4, 5}, top : {1}, gross : {E4(-10), E4(5), E4(15), E4(25)}]

CostLists == {<<5, 15>>, <<15, 5>>, <<5, 5>>, <<5>>, <<0, 10>>, <<>>}

CallGateCostTest ==
    /\ Idle /\ UNCHANGED world
    /\ \E n \in 0..MaxDays, full_fit \in {FitError, Ok(<<3, 4>>)},
          cost_bps_list \in CostLists :
        \E days \in SeqsOfLen(CostDays, n) :
            LET D == [n_dates |-> n, n_tickers |-> 5, full_fit |-> full_fit,
                      days |-> days]
            IN  /\ op' = "gate_cost_test"
                /\ args' = [D |-> D, cost_bps_list |-> cost_bps_list]
                /\ ret' = gate_cost_test(D, cost_bps_list)

\* similarity thresholds -1.0, 0.0, 0.96, 1.0
SimThresholds == {-One, 0, E4(9600), One}

WindowOutcomes == {FitError, Ok(<<3, 4>>), Ok(<<-3, -4>>), Ok(<<4, 3>>), Ok(<<0, 0>>)}

CallGateParamStability ==
    /\ Idle /\ UNCHANGED world
    /\ \E n_windows \in 1..MaxWindows, short \in {0, 1}, t \in SimThresholds,
          t2 \in SimThresholds :
        \E win_fit \in SeqsOfLen(WindowOutcomes, n_windows) :
            LET D == [n_dates |-> 10 * n_windows - short, n_tickers |-> 5,
                      win_fit |-> win_fit]
            IN  /\ op' = "gate_param_stability"
                /\ args' = [D |-> D, n_windows |-> n_windows, t |-> t, t2 |-> t2]
                /\ ret' = [r |-> gate_param_stability(D, t, n_windows),
                           r2 |-> gate_param_stability(D, t2, n_windows)]

MaxFuture == 2

\* correlations of a feature with the target: undefined (a constant column),
\* 0.3, 0.99 itself, 0.9900001, -0.995 and 1.0
CorrOutcomes ==
    {[defined |-> FALSE, val |-> 0], [defined |-> TRUE, val |-> E4(3000)],
     [defined |-> TRUE, val |-> E4(9900)], [defined |-> TRUE, val |-> E4(9900) + 1],
     [defined |-> TRUE, val |-> E4(-9950)], [defined |-> TRUE, val |-> One]}

\* the gate on a table D, and on D with one more row dated after as_of (its
\* target is null, so the correlations are those of D)
CallGateLeakDetection ==
    /\ Idle /\ UNCHANGED world
    /\ \E future_rows \in 0..MaxFuture, c1 \in CorrOutcomes, c2 \in CorrOutcomes,
          has_target \in BOOLEAN, feature_names \in RequestedNames :
            LET D == [columns |-> AllColumns
                                  \cup (IF has_target THEN {TARGET_COL} ELSE {}),
                      future_rows |-> future_rows,
                      corr |-> [f \in AllColumns |-> IF f = "ret_1d" THEN c1 ELSE c2]]
            IN  /\ op' = "gate_leak_detection"
                /\ args' = [D |-> D, feature_names |-> feature_names, as_of |-> MaxDay]
                /\ ret' = [r |-> gate_leak_detection(D, feature_names, MaxDay),
                           r2 |-> gate_leak_detection(
                                      [D EXCEPT !.future_rows = @ + 1],
                                      feature_names, MaxDay)]

NextGate ==
    \/ CallGateWalkForward
    \/ CallGateLeakDetection
    \/ CallGateTickerSplitCv
    \/ CallGateCostTest
    \/ CallGateParamStability
    \/ Return

SpecGate == InitIdle /\ [][NextGate]_vars

(***************************************************************************)
(* pipeline/trade_date.py: dates are day numbers, day 0 is a Monday         *)
(***************************************************************************)

\* date.weekday(): Monday is 0, Sunday is 6
weekday(d) == d % 7

\* the days jpholiday.is_holiday knows as holidays: a Wednesday and the
\* Monday after the first weekend
Holidays == {2, 7}

is_business_day(d) == weekday(d) < 5 /\ d \notin Holidays

RECURSIVE FirstBusinessDayFrom(_)
\* the while loop of next_trade_date
FirstBusinessDayFrom(candidate) ==
    IF is_business_day(candidate) THEN candidate
    ELSE FirstBusinessDayFrom(candidate + 1)

next_trade_date(as_of) == FirstBusinessDayFrom(as_of + 1)

(***************************************************************************)
(* pipeline/watchlist.py                                                   *)
(*                                                                         *)
(* A row of the feature table is [ticker, name, x, regime]: x maps each    *)
(* feature column to Some(value) or None (NaN), regime is the row's        *)
(* market_regime, None when null.  Coefficients are whole numbers.         *)
(***************************************************************************)

WatchlistConfig(size, max_new, min_retained) ==
    [size |-> size, max_new |-> max_new, min_retained |-> min_retained,
     turnover_penalty |-> One \div 100]

\* Mutation: the entry does not record the penalty
WatchlistEntry_ZeroPenalty(ticker, name, score, reason_short, is_new, turnover_penalty) ==
    [ticker |-> ticker, name |-> name, score |-> score,
     reason_short |-> reason_short, is_new |-> is_new,
     turnover_penalty |-> 0]

WatchlistEntry(ticker, name, score, reason_short, is_new, turnover_penalty) ==
    [ticker |-> ticker, name |-> name, score |-> score,
     reason_short |-> reason_short, is_new |-> is_new,
     turnover_penalty |-> turnover_penalty]

\* {"risk_on": 1.0, "risk_off": 0.5}.get(market_regime, 1.0), in tenths
RegimeMultiplier(market_regime) == IF market_regime = "risk_off" THEN 5 ELSE 10

\* one row of _compute_scores: the sum over the signal features the table and
\* the model both have of coefficient * value, NaN filled with 0.0
compute_scores(row, signal_features, model_coef, market_regime) ==
    LET term(feat) ==
            IF feat \in DOMAIN row.x /\ DictHas(model_coef, feat)
            THEN DictGet(model_coef, feat)
                 * (IF row.x[feat] = None THEN 0 ELSE row.x[feat][1])
            ELSE 0
    IN  (SumSeq([i \in 1..Len(signal_features) |-> term(signal_features[i])])
         * RegimeMultiplier(market_regime)) \div 10

\* str.replace("_", " ") on the feature names of the tables
ReplaceUnderscore(f) ==
    IF f = "ret_1d" THEN "ret 1d"
    ELSE IF f = "ret_20d" THEN "ret 20d"
    ELSE IF f = "op_margin_yoy" THEN "op margin yoy"
    ELSE f

RECURSIVE BestFeature(_, _, _, _)
\* the loop of _reason_short: the first feature of the largest |value|
BestFeature(row, features, best_feat, best_val) ==
    IF features = <<>> THEN best_feat
    ELSE LET f == Head(features)
         IN  IF f \in DOMAIN row.x /\ row.x[f] # None /\ Abs(row.x[f][1]) > best_val
             THEN BestFeature(row, Tail(features), Some(f), Abs(row.x[f][1]))
             ELSE BestFeature(row, Tail(features), best_feat, best_val)

reason_short(row, features) ==
    \* best_val starts at -1e9, below every |value|; any negative start does the same
    LET best_feat == BestFeature(row, features, None, -One)
    IN  IF best_feat = None THEN "composite" ELSE ReplaceUnderscore(best_feat[1])

RECURSIVE InsertDesc_Asc(_, _)
\* Mutation: the sort is ascending
InsertDesc_Asc(r, s) ==
    IF s = <<>> THEN <<r>>
    ELSE IF r.adj_score < Head(s).adj_score THEN <<r>> \o s
    ELSE <<Head(s)>> \o InsertDesc_Asc(r, Tail(s))

RECURSIVE InsertDesc(_, _)
\* a scored row goes behind the rows with an _adj_score at least as large
InsertDesc(r, s) ==
    IF s = <<>> THEN <<r>>
    ELSE IF r.adj_score > Head(s).adj_score THEN <<r>> \o s
    ELSE <<Head(s)>> \o InsertDesc(r, Tail(s))

\* Mutation: the rows stay in table order
SortDesc_Unsorted(rows) == rows

\* sort_values("_adj_score", ascending=False): equal scores keep table order
SortDesc(rows) ==
    LET S[i \in 0..Len(rows)] ==
            IF i = 0 THEN <<>> ELSE InsertDesc(rows[i], S[i - 1])
    IN  S[Len(rows)]

\* Mutation: head() keeps every row
HeadN_All(s, n) == s

\* Mutation: head() keeps one row more
HeadN_OneMore(s, n) == SubSeq(s, 1, Min(n + 1, Len(s)))

\* DataFrame.head(n), n >= 0
HeadN(s, n) == SubSeq(s, 1, Min(n, Len(s)))

build_watchlist(day_rows, model_coef, signal_features, prev_watchlist, cfg) ==
    IF day_rows = <<>> THEN <<>>
    ELSE
        LET regime ==
                IF \A i \in 1..Len(day_rows) : day_rows[i].regime = None THEN "risk_on"
                ELSE IF day_rows[1].regime = None THEN "nan"
                ELSE day_rows[1].regime[1]
            prev_set == { prev_watchlist[i] : i \in 1..Len(prev_watchlist) }
            scored(row) ==
                LET score == compute_scores(row, signal_features, model_coef, regime)
                    is_new == row.ticker \notin prev_set
                    penalty == IF is_new THEN cfg.turnover_penalty ELSE 0
                IN  [row |-> row, is_new |-> is_new, turnover_penalty |-> penalty,
                     adj_score |-> score - penalty]
            day_df == SortDesc([i \in 1..Len(day_rows) |-> scored(day_rows[i])])
            retained == HeadN(SelectSeq(day_df, LAMBDA r : ~r.is_new), cfg.min_retained)
            new_candidates == HeadN(SelectSeq(day_df, LAMBDA r : r.is_new), cfg.max_new)
            selected ==
                IF prev_set # {} /\ Cardinality(prev_set) >= cfg.min_retained
                THEN HeadN(SortDesc(retained \o new_candidates), cfg.size)
                ELSE HeadN(day_df, cfg.size)
        IN  [i \in 1..Len(selected) |->
                WatchlistEntry(selected[i].row.ticker, selected[i].row.name,
                               selected[i].adj_score,
                               reason_short(selected[i].row, signal_features),
                               selected[i].is_new, selected[i].turnover_penalty)]

(***************************************************************************)
(* pipeline/output.py and pipeline/notify.py                               *)
(*                                                                         *)
(* The written files are a mapping path -> content; a JSON file's content  *)
(* is the record that is dumped.                                           *)
(***************************************************************************)

\* watchlist[:3] as the dictionaries of the decision card and the payload
Top3(watchlist) ==
    [i \in 1..Min(3, Len(watchlist)) |->
        [rank |-> i, ticker |-> watchlist[i].ticker, name |-> watchlist[i].name,
         score |-> PyRound(watchlist[i].score, 6),
         reason_short |-> watchlist[i].reason_short]]

CardAction(gate_result, watchlist) ==
    IF gate_result.all_passed THEN "TRADE" ELSE "NO_TRADE"

write_decision_card(td_str, run_id, gate_result, watchlist, wf_ic) ==
    [schema_version |-> "2",
     trade_date |-> td_str,
     run_id |-> run_id,
     action |-> CardAction(gate_result, watchlist),
     no_trade_reasons |-> gate_result.rejection_reasons,
     top3 |-> Top3(watchlist),
     key_metrics |-> [confidence |-> PyRound(wf_ic, 6),
                      wf_ic |-> PyRound(wf_ic, 6),
                      n_eligible |-> gate_result.n_eligible,
                      missing_rate |-> PyRound(gate_result.missing_rate, 4)]]

write_watchlist_csv(watchlist) ==
    [i \in 1..Len(watchlist) |->
        [code |-> watchlist[i].ticker, name |-> watchlist[i].name,
         score |-> PyRound(watchlist[i].score, 6),
         reason_short |-> watchlist[i].reason_short,
         is_new |-> IF watchlist[i].is_new THEN 1 ELSE 0,
         turnover_penalty |-> PyRound(watchlist[i].turnover_penalty, 6)]]

write_quality_report(td_str, run_id, gate_result) ==
    [trade_date |-> td_str,
     run_id |-> run_id,
     all_passed |-> gate_result.all_passed,
     missing_rate |-> PyRound(gate_result.missing_rate, 4),
     n_eligible |-> gate_result.n_eligible,
     gates |-> [i \in 1..Len(gate_result.gates) |->
                   [key |-> gate_result.gates[i].key,
                    val |-> [passed |-> gate_result.gates[i].val.passed,
                             reason |-> gate_result.gates[i].val.reason,
                             details |-> gate_result.gates[i].val.details]]],
     rejection_reasons |-> gate_result.rejection_reasons]

write_report_md(td_str, run_id, gate_result, watchlist, wf_ic) ==
    [title |-> td_str,
     run_id |-> run_id,
     action |-> IF gate_result.all_passed THEN "TRADE" ELSE "NO_TRADE",
     no_trade_reasons |-> gate_result.rejection_reasons,
     wf_ic |-> FmtF(wf_ic, 4),
     n_eligible |-> gate_result.n_eligible,
     missing_rate |-> FmtPct(gate_result.missing_rate, 1),
     gates |-> [i \in 1..Len(gate_result.gates) |->
                   [name |-> gate_result.gates[i].key,
                    status |-> IF gate_result.gates[i].val.passed THEN "pass" ELSE "fail"]],
     watchlist |-> [i \in 1..Min(10, Len(watchlist)) |->
                       [rank |-> i, ticker |-> watchlist[i].ticker,
                        name |-> watchlist[i].name,
                        score |-> FmtF(watchlist[i].score, 4),
                        new_marker |-> watchlist[i].is_new,
                        reason_short |-> watchlist[i].reason_short]]]

write_outputs(out_dir, td_str, run_id, gate_result, watchlist, manifest, wf_ic) ==
    LET path(name) == out_dir \o "/" \o name
    IN  DictSet(DictSet(DictSet(DictSet(DictSet(DictSet(<<>>,
            path("decision_card_" \o td_str \o ".json"),
                write_decision_card(td_str, run_id, gate_result, watchlist, wf_ic)),
            path("watchlist_50_" \o td_str \o ".csv"),
                write_watchlist_csv(watchlist)),
            path("quality_report_" \o td_str \o ".json"),
                write_quality_report(td_str, run_id, gate_result)),
            path("manifest_" \o run_id \o ".json"), manifest),
            path("manifest.json"), manifest),
            path("report_" \o td_str \o ".md"),
                write_report_md(td_str, run_id, gate_result, watchlist, wf_ic))

\* the parts build_slack_payload formats into the message text
build_slack_payload(trade_date, run_id, action, wf_ic, n_eligible, no_trade_reasons, top3) ==
    [text |-> [icon |-> IF action = "TRADE" THEN ":white_check_mark:" ELSE ":no_entry:",
               title |-> trade_date,
               action |-> action,
               wf_ic |-> wf_ic,
               n_eligible |-> n_eligible,
               top3_lines |-> [i \in 1..Len(top3) |->
                                  [rank |-> top3[i].rank, ticker |-> top3[i].ticker,
                                   name_part |-> IF top3[i].name # top3[i].ticker
                                                 THEN " " \o top3[i].name ELSE "",
                                   score |-> FmtF(top3[i].score, 4),
                                   reason_short |-> top3[i].reason_short]],
               reasons |-> no_trade_reasons]]

\* send_slack: webhook is "unset", or the POST's outcome "posted" / "failed";
\* the payload goes to the fallback file unless it was posted
send_slack(files, payload, webhook, fallback_path) ==
    IF webhook = "posted" THEN [sent |-> TRUE, files |-> files]
    ELSE [sent |-> FALSE, files |-> DictSet(files, fallback_path, payload)]

(***************************************************************************)
(* pipeline/runner.py: run_pipeline                                        *)
(*                                                                         *)
(* loader is [bars, master]: bars is None when fetch_daily returns no row, *)
(* else Some(B), B being the dataset record of the feature table the bars  *)
(* give plus day_rows, the rows of the decision date; master maps tickers  *)
(* to company names (empty when fetch_master returns an empty frame).      *)
(* env holds what the run reads from its surroundings: the run id          *)
(* (clock and uuid), the configuration file, the signal feature lists,     *)
(* whether bars_path exists, and the Slack webhook's outcome.              *)
(***************************************************************************)

\* add_forward_return: pd.concat of the per-ticker parts raises on no part
add_forward_return(bars) ==
    IF bars = None THEN Raise("No objects to concatenate") ELSE Ok(bars[1])

\* features["name"]: the master's name, the ticker where the master has none
WithNames(rows, master) ==
    [i \in 1..Len(rows) |->
        [ticker |-> rows[i].ticker,
         name |-> IF DictHas(master, rows[i].ticker)
                  THEN DictGet(master, rows[i].ticker) ELSE rows[i].ticker,
         x |-> rows[i].x, regime |-> rows[i].regime]]

\* the columns of a feature table that are no feature, in its fallback list
NonFeatureColumns ==
    {"as_of", "ticker", "quality_flags", "market_regime", "forward_return_5d",
     "op_margin_yoy"}

\* available: the signal features the table has; when it has none, every
\* column outside NonFeatureColumns
Available(signal_features, column_order) ==
    LET present == SelectSeq(signal_features,
                             LAMBDA f : \E i \in 1..Len(column_order) : column_order[i] = f)
    IN  IF present # <<>> THEN present
        ELSE SelectSeq(column_order \o <<"name">>, LAMBDA c : c \notin NonFeatureColumns)

\* rows with a null in one of the requested feature columns
MissingRows(rows, feature_names) ==
    Cardinality({ i \in 1..Len(rows) :
                    \E k \in 1..Len(feature_names) : rows[i].x[feature_names[k]] = None })

\* The feature table of a run: the market is closed on a day that is no
\* business day, so the bars hold no row of that date.
FeatureTable(B, as_of, master, feature_names) ==
    LET rows == IF is_business_day(as_of) THEN WithNames(B.day_rows, master) ELSE <<>>
    IN  [B EXCEPT !.day_rows = rows,
                  !.n_eligible = Len(rows),
                  !.n_missing = MissingRows(rows, feature_names)]

\* {f: c for f, c in zip(feature_names, model.coef_)}
CoefDict(feature_names, coef_) ==
    [i \in 1..Min(Len(feature_names), Len(coef_)) |->
        [key |-> feature_names[i], val |-> coef_[i]]]

\* try: coef = train_model(...).coef  except Exception: coef stays {}
TrainOrEmpty(r, feature_names) ==
    IF r.ok THEN Ok(CoefDict(feature_names, r.val)) ELSE Ok(<<>>)

\* Mutation: the payload's action follows the top-3 list
SlackAction_FromTop3(gate_result, top3) ==
    IF top3 # <<>> THEN "TRADE" ELSE "NO_TRADE"

SlackAction(gate_result, top3) ==
    IF gate_result.all_passed THEN "TRADE" ELSE "NO_TRADE"

\* runner.py 172-188: the manifest of the run
Manifest(as_of, td_str, env) ==
    [run_id |-> env.run_id,
     code_hash |-> env.code_hash,
     inputs_digest |-> IF env.bars_path_exists THEN "sha256:bars" ELSE "n/a",
     as_of |-> DateStr(as_of),
     data_asof |-> DateStr(as_of),
     trade_date |-> td_str,
     generated_at_jst |-> env.now,
     params |-> [model |-> "Ridge", alpha |-> One, target |-> "forward_return_5d",
                 minute_cache_days |-> 20]]

\* runner.py 193-233: write the output files, notify, return the directory
WriteAndNotify(out_dir, td_str, env, gate_result, watchlist, manifest, wf_ic, train_raised) ==
    LET top3 == Top3(watchlist)
        slack_payload ==
            build_slack_payload(td_str, env.run_id, SlackAction(gate_result, top3),
                                wf_ic, gate_result.n_eligible,
                                gate_result.rejection_reasons, top3)
        sent == send_slack(write_outputs(out_dir, td_str, env.run_id, gate_result,
                                         watchlist, manifest, wf_ic),
                           slack_payload, env.webhook, out_dir \o "/slack_payload.json")
    IN  Ok([out_dir |-> out_dir,
            files |-> sent.files,
            slack_payload |-> slack_payload,
            slack_sent |-> sent.sent,
            gate_result |-> gate_result,
            train_raised |-> train_raised,
            watchlist |-> watchlist])

\* runner.py 147-188: wf_ic, the watchlist (only with coefficients), the manifest
BuildWatchlist(as_of, td_str, env, features, available, prev_watchlist, gate_result, coef, train_raised) ==
    WriteAndNotify("output/" \o td_str, td_str, env, gate_result,
                   IF coef # <<>>
                   THEN build_watchlist(features.day_rows, coef, available,
                                        prev_watchlist, env.wl_config)
                   ELSE <<>>,
                   Manifest(as_of, td_str, env),
                   IF DictHas(gate_result.gates, "walk_forward")
                   THEN WfIcOrZero(DictGet(gate_result.gates, "walk_forward"))
                   ELSE 0,
                   train_raised)

\* runner.py 126-145: the gates, then the full-dataset training
GatesAndTraining(as_of, td_str, env, features, available, prev_watchlist) ==
    LET gates_ret == run_all_gates(features, available, as_of, env.gate_cfg)
        trained == train_model(NRows(features), features.full_fit)
        coef_ret == TrainOrEmpty(trained, available)
    IN  IF ~gates_ret.ok THEN gates_ret
        ELSE IF ~coef_ret.ok THEN coef_ret
        ELSE BuildWatchlist(as_of, td_str, env, features, available, prev_watchlist,
                            gates_ret.val, coef_ret.val, ~trained.ok)

\* runner.py 87-115: the feature table and the available signal features
FeatureBuilding(as_of, td_str, loader, env, prev_watchlist, bars, available) ==
    GatesAndTraining(as_of, td_str, env,
                     FeatureTable(bars, as_of, loader.master, available),
                     available, prev_watchlist)

run_pipeline(as_of, loader, prev_watchlist, env) ==
    LET bars_with_fwd == add_forward_return(loader.bars)
    IN  IF ~bars_with_fwd.ok THEN bars_with_fwd
        ELSE FeatureBuilding(as_of, DateStr(next_trade_date(as_of)), loader, env,
                             prev_watchlist, bars_with_fwd.val,
                             Available(env.signal_features,
                                       bars_with_fwd.val.column_order))

(***************************************************************************)
(* Specification of run_pipeline: a caller runs it for any decision date   *)
(* with any loader, and the run returns or raises.                         *)
(***************************************************************************)

MaxRows == 6

\* a row of the decision date: ticker number t and its two feature values
Row(t, ret_1d, ret_20d, regime) ==
    [ticker |-> "T" \o ToString(t),
     x |-> [f \in AllColumns |-> IF f = "ret_1d" THEN ret_1d ELSE ret_20d],
     regime |-> regime]

\* MaxRows rows; ret_1d falls with the ticker number, T3 has a negative
\* ret_20d, and the last two rows lack ret_20d when `gaps` is set
DayRows(gaps, regime) ==
    [t \in 1..MaxRows |->
        Row(t, Some(E4(100 * (MaxRows - t))),
            IF gaps /\ t > MaxRows - 2 THEN None
            ELSE IF t = 3 THEN Some(E4(-75)) ELSE Some(0),
            regime)]

DayRowSets ==
    {<<>>, DayRows(FALSE, Some("risk_on")), DayRows(TRUE, None),
     HeadN(DayRows(FALSE, Some("risk_off")), MaxRows - 2)}

GoodFolds == <<Ok(E4(200)), Ok(E4(300)), Ok(E4(100))>>

GoodWindows == <<Ok(<<3, 4>>), Ok(<<3, 4>>), Ok(<<3, 4>>)>>

NaNError == Raise("Input X contains NaN.")

InfError == Raise("Input y contains infinity or a value too large for dtype('float64').")

UndefinedCorr == [f \in AllColumns |-> [defined |-> FALSE, val |-> 0]]

\* The tables a loader's bars give (decision-date rows apart):
\*   no row with a known target;
\*   a healthy table;
\*   a table whose signal is too weak for the walk-forward bar;
\*   a table with a feature column that is null in every row: every fit and
\*     every prediction raises;
\*   a table with one infinite target, in the last dates and in a ticker of
\*     the hold-out set: the fit on all rows and on the last stability window
\*     raises, no walk-forward fold trains on that row, and the hold-out
\*     prediction ranks it.
Tables ==
    {MkDataset(AllColumns, <<0, 0>>, <<0, 0>>, GoodFolds, Ok(E4(100)),
               <<Ok(<<3, 4>>), E4(20)>>, GoodWindows, <<0, CleanCorr>>),
     MkDataset(AllColumns, <<0, 0>>, <<MaxDates, MaxTickers>>, GoodFolds, Ok(E4(100)),
               <<Ok(<<3, 4>>), E4(20)>>, GoodWindows, <<0, CleanCorr>>),
     MkDataset(AllColumns, <<0, 0>>, <<MaxDates, MaxTickers>>,
               <<Ok(E4(30)), Ok(E4(-100)), Ok(E4(200))>>, Ok(E4(100)),
               <<Ok(<<3, 4>>), E4(10)>>, GoodWindows, <<0, CleanCorr>>),
     MkDataset(AllColumns, <<0, 0>>, <<MaxDates, MaxTickers>>,
               <<NaNError, NaNError, NaNError>>, NaNError,
               <<NaNError, 0>>, <<NaNError, NaNError, NaNError>>, <<0, CleanCorr>>),
     MkDataset(AllColumns, <<0, 0>>, <<MaxDates, MaxTickers>>, GoodFolds, Ok(E4(100)),
               <<InfError, 0>>, <<Ok(<<3, 4>>), Ok(<<3, 4>>), InfError>>,
               <<0, UndefinedCorr>>)}

\* a table together with its decision-date rows and its column order
WithRows(D, rows) ==
    [k \in DOMAIN D \cup {"day_rows", "column_order"} |->
        IF k = "day_rows" THEN rows
        ELSE IF k = "column_order" THEN FeatureNames
        ELSE D[k]]

Loaders ==
    {[bars |-> None, master |-> <<>>]}
    \cup { [bars |-> Some(WithRows(D, rows)), master |-> master] :
             D \in Tables, rows \in DayRowSets,
             master \in {<<>>, <<[key |-> "T1", val |-> "Toyota"]>>} }

PrevWatchlists == {<<>>, <<"T2", "T5">>}

\* the gates section of the configuration file: absent; a weak walk-forward
\* bar with repeated cost levels; no cost level
PipelineGateCfgs ==
    {<<>>,
     [wf_ic_threshold |-> 0, cost_bps |-> <<15, 5, 15>>, min_eligible_stocks |-> 2],
     [cost_bps |-> <<>>]}

Envs ==
    { [run_id |-> "20260210T060000-0a1b2c3d", code_hash |-> "unknown",
       now |-> "2026-02-10T15:00:00+09:00",
       signal_features |-> <<"ret_1d", "ret_20d", "op_margin_yoy">>,
       bars_path_exists |-> e[1], webhook |-> e[2],
       gate_cfg |-> gate_cfg, wl_config |-> wl_config] :
        e \in {<<FALSE, "unset">>, <<TRUE, "posted">>, <<FALSE, "failed">>},
        gate_cfg \in PipelineGateCfgs,
        wl_config \in {WatchlistConfig(50, 20, 30), WatchlistConfig(3, 1, 2)} }

CallRunPipeline ==
    /\ Idle /\ UNCHANGED world
    /\ \E as_of \in 0..MaxDay, loader \in Loaders, prev_watchlist \in PrevWatchlists,
          env \in Envs :
        /\ op' = "run_pipeline"
        /\ args' = [as_of |-> as_of, loader |-> loader,
                    prev_watchlist |-> prev_watchlist, env |-> env]
        /\ ret' = run_pipeline(as_of, loader, prev_watchlist, env)

NextPipeline == CallRunPipeline \/ Return

SpecPipeline == InitIdle /\ [][NextPipeline]_vars

(***************************************************************************)
(* Specification of build_watchlist: a caller applies it to the rows of a  *)
(* decision date with any previous watchlist and any configuration.        *)
(***************************************************************************)

MaxWlRows == 4

MaxSize == 3

MaxNew == 2

MaxRetained == 2

\* ret_1d of a row: 0.0, 0.005 or 0.015 (the turnover penalty is 0.01)
WlValues == {Some(0), Some(E4(50)), Some(E4(150))}

\* n rows T1..Tn with a ret_1d each; the last row lacks ret_20d
WlRows(n, vals, regime) ==
    [t \in 1..n |-> Row(t, vals[t], IF t = n THEN None ELSE Some(0), Some(regime))]

\* the ret_1d columns of n rows: the last row may lack ret_1d as well, and
\* then has no signal feature at all
WlColumns(n) ==
    {vals \in SeqsOfLen(WlValues \cup {None}, n) :
        \A t \in 1..(n - 1) : vals[t] # None}

WlRowSets ==
    UNION { { WlRows(n, vals, regime) : vals \in WlColumns(n),
                                        regime \in {"risk_on", "risk_off"} } :
            n \in 0..MaxWlRows }

\* previous watchlists: none, one ticker, two tickers, and three tickers of
\* which one has no row on the decision date
WlPrevWatchlists == {<<>>, <<"T1">>, <<"T2", "T1">>, <<"T3", "T4", "T9">>}

WlConfigs ==
    { WatchlistConfig(size, max_new, min_retained) :
        size \in 1..MaxSize, max_new \in 0..MaxNew, min_retained \in 0..MaxRetained }

\* coefficients 2 and 1 of the two features
WlCoef == <<[key |-> "ret_1d", val |-> 2], [key |-> "ret_20d", val |-> 1]>>

CallBuildWatchlist ==
    /\ Idle /\ UNCHANGED world
    /\ \E day_rows \in WlRowSets, prev_watchlist \in WlPrevWatchlists, cfg \in WlConfigs :
        /\ op' = "build_watchlist"
        /\ args' = [day_rows |-> WithNames(day_rows, <<>>), model_coef |-> WlCoef,
                    signal_features |-> FeatureNames,
                    prev_watchlist |-> prev_watchlist, cfg |-> cfg]
        /\ ret' = build_watchlist(WithNames(day_rows, <<>>), WlCoef, FeatureNames,
                                  prev_watchlist, cfg)

NextWatchlist == CallBuildWatchlist \/ Return

SpecWatchlist == InitIdle /\ [][NextWatchlist]_vars

(***************************************************************************)
(* Specification of write_outputs: a caller hands it any verdict, any      *)
(* watchlist and any walk-forward IC.                                      *)
(***************************************************************************)

\* walk-forward ICs: -0.15, -0.0000004, 0.0, 0.003 and 0.02
OutWfIcs == {E4(-1500), -4, 0, E4(30), E4(200)}

\* the verdicts run_all_gates gives on the tables of the pipeline
OutGateResults ==
    { run_all_gates(D, FeatureNames, MaxDay, gate_cfg).val :
        D \in Tables, gate_cfg \in PipelineGateCfgs }

OutWatchlists ==
    {<<>>,
     build_watchlist(WithNames(DayRows(FALSE, Some("risk_on")), <<>>), WlCoef,
                     FeatureNames, <<>>, WatchlistConfig(50, 20, 30))}

CallWriteOutputs ==
    /\ Idle /\ UNCHANGED world
    /\ \E td \in 1..MaxDay, gate_result \in OutGateResults,
          watchlist \in OutWatchlists, wf_ic \in OutWfIcs :
        /\ op' = "write_outputs"
        /\ args' = [out_dir |-> "output/" \o DateStr(td), td_str |-> DateStr(td),
                    run_id |-> "test-run", gate_result |-> gate_result,
                    watchlist |-> watchlist, manifest |-> <<>>, wf_ic |-> wf_ic]
        /\ ret' = write_outputs("output/" \o DateStr(td), DateStr(td), "test-run",
                                gate_result, watchlist, <<>>, wf_ic)

NextOutput == CallWriteOutputs \/ Return

SpecOutput == InitIdle /\ [][NextOutput]_vars

(***************************************************************************)
(* The `run` command (cli.py, _cmd_run): several processes may invoke it.  *)
(* Each opens logs/run.lock, asks for a non-blocking exclusive flock, and  *)
(* only the process that is granted it goes on to _run_pipeline_cmd; the   *)
(* finally clause unlocks whatever way _run_pipeline_cmd ends.  A process  *)
(* slot that has exited may be used by a later invocation.                 *)
(***************************************************************************)

\* fcntl.flock(lock_fh, LOCK_EX | LOCK_NB) always granted
flock_nb_Granted(holder, p) == Ok(p)

\* fcntl.flock(lock_fh, LOCK_EX | LOCK_NB): granted iff nobody holds the lock
flock_nb(holder, p) == IF holder = 0 THEN Ok(p) ELSE Raise("OSError")

\* fcntl.flock(lock_fh, LOCK_UN) followed by lock_fh.close()
flock_un(holder, p) == IF holder = p THEN 0 ELSE holder

\* lock_path.parent.mkdir(...); lock_fh = open(lock_path, "w")
RunOpen(p) ==
    /\ procs[p].pc = "start"
    /\ procs' = [procs EXCEPT ![p].pc = "opened"]
    /\ UNCHANGED <<op, args, ret, run_lock, cache_file>>

\* try: flock ... except OSError: lock_fh.close(); return 1
RunFlock(p) ==
    /\ procs[p].pc = "opened"
    /\ LET r == flock_nb(run_lock, p) IN
        IF r.ok
        THEN /\ run_lock' = r.val
             /\ procs' = [procs EXCEPT ![p].pc = "locked"]
        ELSE /\ run_lock' = run_lock
             /\ procs' = [procs EXCEPT ![p] = [pc |-> "done", rc |-> Some(1),
                                               called |-> FALSE,
                                               outcome |-> "blocked"]]
    /\ UNCHANGED <<op, args, ret, cache_file>>

\* _run_pipeline_cmd up to the call of run_pipeline: a bad --as-of raises, a
\* missing fixture or a JQuantsAuthError returns 1, otherwise run_pipeline starts
RunPipelineCmd(p) ==
    /\ procs[p].pc = "locked"
    /\ \E how \in {"raised", "returned", "call"} :
        procs' = [procs EXCEPT ![p] =
                    IF how = "call"
                    THEN [pc |-> "body", rc |-> None, called |-> TRUE,
                          outcome |-> "none"]
                    ELSE [pc |-> "finally", rc |-> Some(1), called |-> FALSE,
                          outcome |-> how]]
    /\ UNCHANGED <<op, args, ret, run_lock, cache_file>>

\* run_pipeline ends: it returns (exit code 0) or raises (the interpreter
\* exits with code 1 once the exception has left main)
RunPipelineEnds(p) ==
    /\ procs[p].pc = "body"
    /\ \E raised \in BOOLEAN :
        procs' = [procs EXCEPT ![p].pc = "finally",
                               ![p].rc = Some(IF raised THEN 1 ELSE 0),
                               ![p].outcome = IF raised THEN "raised"
                                              ELSE "returned"]
    /\ UNCHANGED <<op, args, ret, run_lock, cache_file>>

\* finally: fcntl.flock(lock_fh, LOCK_UN); lock_fh.close()
RunFinally(p) ==
    /\ procs[p].pc = "finally"
    /\ run_lock' = flock_un(run_lock, p)
    /\ procs' = [procs EXCEPT ![p].pc = "done"]
    /\ UNCHANGED <<op, args, ret, cache_file>>

\* the command is invoked again later (cron, or the operator)
RunAgain(p) ==
    /\ procs[p].pc = "done"
    /\ procs' = [procs EXCEPT ![p] = NotStarted]
    /\ UNCHANGED <<op, args, ret, run_lock, cache_file>>

NextRun ==
    \E p \in Procs :
        \/ RunOpen(p)
        \/ RunFlock(p)
        \/ RunPipelineCmd(p)
        \/ RunPipelineEnds(p)
        \/ RunFinally(p)
        \/ RunAgain(p)

SpecRun == InitIdle /\ [][NextRun]_vars

(***************************************************************************)
(* The J-Quants client (pipeline/ingest.py).  What the server answers is   *)
(* not the repository's: a call of _request_with_retry is given the        *)
(* answers its successive requests.get calls will receive, and a call of   *)
(* fetch_daily is given, per date, what the request for that date yields.  *)
(***************************************************************************)

MAX_RETRIES == 3

BACKOFF_BASE == 1

BACKOFF_CAP == 30

\* how many answers are held ready for one call of _request_with_retry
MaxResponses == 4

\* one answer of requests.get: it raised a RequestException, or it returned a
\* response with a status code, an optional Retry-After and a body that
\* resp.json() can or cannot parse
Response(status, retry_after, body_ok) ==
    [raised |-> FALSE, status |-> status, retry_after |-> retry_after,
     body_ok |-> body_ok]

ConnectionError ==
    [raised |-> TRUE, status |-> 0, retry_after |-> None, body_ok |-> FALSE]

Responses ==
    {Response(200, None, TRUE), Response(200, None, FALSE),
     Response(403, None, TRUE), Response(404, None, TRUE),
     Response(429, None, TRUE), Response(429, Some(5), TRUE),
     Response(500, None, TRUE), ConnectionError}

\* if resp.status_code == 403 never taken
IsAuthFailure_Never(resp) == FALSE

\* if resp.status_code == 403
IsAuthFailure(resp) == ~resp.raised /\ resp.status = 403

RetryResult(outcome, n, sleeps) ==
    [outcome |-> outcome, requests |-> n, sleeps |-> sleeps]

RECURSIVE Attempt(_, _, _, _)
\* the for loop of _request_with_retry from the given attempt on; resp.
\* raise_for_status() raises HTTPError on a 4xx/5xx status and resp.json()
\* raises JSONDecodeError on an unparsable body, both RequestExceptions that
\* the except clause turns into a retry
Attempt(resps, attempt, delay, sleeps) ==
    IF attempt > MAX_RETRIES
    THEN RetryResult(Raise("RuntimeError"), attempt - 1, sleeps)
    ELSE LET resp == resps[attempt]
             again(wait) == Attempt(resps, attempt + 1,
                                    Min(delay * 2, BACKOFF_CAP),
                                    Append(sleeps, wait))
         IN  IF resp.raised THEN again(delay)
             ELSE IF IsAuthFailure(resp)
             THEN RetryResult(Raise("JQuantsAuthError"), attempt, sleeps)
             ELSE IF resp.status = 429
             THEN again(IF resp.retry_after # None THEN resp.retry_after[1]
                        ELSE delay)
             ELSE IF resp.status >= 500 THEN again(delay)
             ELSE IF resp.status >= 400 THEN again(delay)
             ELSE IF ~resp.body_ok THEN again(delay)
             ELSE RetryResult(Ok("json"), attempt, sleeps)

request_with_retry(resps) == Attempt(resps, 1, BACKOFF_BASE, <<>>)

CallRequestWithRetry ==
    /\ Idle /\ UNCHANGED world
    /\ \E resps \in SeqsOfLen(Responses, MaxResponses) :
        /\ op' = "request_with_retry"
        /\ args' = [resps |-> resps]
        /\ ret' = request_with_retry(resps)

\* the last calendar day a bars request may ask for
MaxCacheDay == 5

Bar(d, ticker, close) == [as_of |-> d, ticker |-> ticker, close |-> close]

\* what _fetch_all_pages yields for one date: _request_with_retry raised, the
\* market had no bars, one bar per ticker, or a page repeating a bar
ApiAnswers(d) ==
    {Raise("RuntimeError"), Ok(<<>>),
     Ok(<<Bar(d, "T1", 100), Bar(d, "T2", 200)>>),
     Ok(<<Bar(d, "T1", 100), Bar(d, "T2", 200), Bar(d, "T1", 101)>>)}

BusinessDays == {d \in 1..MaxCacheDay : is_business_day(d)}

Apis ==
    {api \in [BusinessDays -> UNION {ApiAnswers(d) : d \in BusinessDays}] :
        \A d \in BusinessDays : api[d] \in ApiAnswers(d)}

FetchResult(ok, val, err, requests, seen) ==
    [ok |-> ok, val |-> val, err |-> err, requests |-> requests, seen |-> seen]

RECURSIVE ApiRange(_, _, _, _, _)
\* the while loop of _fetch_api_range in all-market mode: one request per
\* business day, the first failing request ends the fetch
ApiRange(api, current, end_date, records, requests) ==
    IF current > end_date THEN FetchResult(TRUE, records, "", requests, <<>>)
    ELSE IF ~is_business_day(current)
    THEN ApiRange(api, current + 1, end_date, records, requests)
    ELSE IF ~api[current].ok
    THEN FetchResult(FALSE, <<>>, api[current].err,
                     Append(requests, current), <<>>)
    ELSE ApiRange(api, current + 1, end_date, records \o api[current].val,
                  Append(requests, current))

fetch_api_range(api, start_date, end_date) ==
    ApiRange(api, start_date, end_date, <<>>, <<>>)

\* cache.drop_duplicates(subset=["as_of", "ticker"], keep="last")
drop_duplicates(rows) ==
    LET kept == SelectSeq([i \in DOMAIN rows |-> [row |-> rows[i], i |-> i]],
                          LAMBDA x : \A j \in DOMAIN rows :
                              (j > x.i) => \/ rows[j].as_of # x.row.as_of
                                           \/ rows[j].ticker # x.row.ticker)
    IN  [k \in DOMAIN kept |-> kept[k].row]

BarBefore(a, b) ==
    a.as_of < b.as_of \/ (a.as_of = b.as_of /\ a.ticker = "T1" /\ b.ticker = "T2")

RECURSIVE InsertBar(_, _)
InsertBar(sorted, x) ==
    IF sorted = <<>> THEN <<x>>
    ELSE IF BarBefore(x, Head(sorted)) THEN <<x>> \o sorted
    ELSE <<Head(sorted)>> \o InsertBar(Tail(sorted), x)

RECURSIVE SortBars(_)
\* cache.sort_values(["as_of", "ticker"])
SortBars(rows) ==
    IF rows = <<>> THEN <<>>
    ELSE InsertBar(SortBars(SubSeq(rows, 1, Len(rows) - 1)), rows[Len(rows)])

\* tail_start = cache_max + timedelta(days=1), made the last cached day itself
TailStart_Inclusive(cache_max) == cache_max

\* tail_start = cache_max + timedelta(days=1)
TailStart(cache_max) == cache_max + 1

\* the ranges _fetch_with_cache asks the API for, given the cache it read
MissingRanges(cache, start_date, end_date) ==
    IF cache = <<>> THEN << <<start_date, end_date>> >>
    ELSE LET days == {cache[i].as_of : i \in DOMAIN cache}
             cache_min == CHOOSE d \in days : \A e \in days : d <= e
             cache_max == CHOOSE d \in days : \A e \in days : d >= e
         IN  (IF TailStart(cache_max) <= end_date
              THEN << <<TailStart(cache_max), end_date>> >> ELSE <<>>)
             \o (IF cache_min > start_date
                 THEN << <<start_date, cache_min - 1>> >> ELSE <<>>)

RECURSIVE FetchRanges(_, _, _)
\* new_frames: the ranges fetched one after the other
FetchRanges(api, ranges, acc) ==
    IF ranges = <<>> \/ ~acc.ok THEN acc
    ELSE LET r == fetch_api_range(api, Head(ranges)[1], Head(ranges)[2])
         IN  FetchRanges(api, Tail(ranges),
                         FetchResult(r.ok, acc.val \o r.val, r.err,
                                     acc.requests \o r.requests, <<>>))

\* _fetch_with_cache: the returned slice (or the exception) and the cache
\* file it leaves; an unreadable file is renamed away and treated as absent,
\* and a failed save leaves the file as it was
fetch_with_cache(file, api, start_date, end_date, save_ok) ==
    LET corrupt == file.exists /\ ~file.readable
        file1 == IF corrupt THEN NoFile ELSE file
        cache == IF file1.exists THEN file1.rows ELSE <<>>
        ranges == MissingRanges(cache, start_date, end_date)
        new == FetchRanges(api, ranges, FetchResult(TRUE, <<>>, "", <<>>, <<>>))
        merged == SortBars(drop_duplicates(cache \o new.val))
        slice(rows) == SelectSeq(rows, LAMBDA r : r.as_of >= start_date
                                                  /\ r.as_of <= end_date)
    IN  IF ~new.ok
        THEN [result |-> FetchResult(FALSE, <<>>, new.err, new.requests, cache),
              file |-> file1]
        ELSE IF ranges # <<>>
        THEN [result |-> FetchResult(TRUE, slice(merged), "", new.requests, cache),
              file |-> IF save_ok
                       THEN [exists |-> TRUE, readable |-> TRUE, rows |-> merged]
                       ELSE file1]
        ELSE [result |-> FetchResult(TRUE, slice(cache), "", <<>>, cache),
              file |-> file1]

\* fetch_daily with cache_path set and tickers = None
CallFetchDaily ==
    /\ Idle
    /\ \E start_date \in 1..MaxCacheDay, end_date \in 1..MaxCacheDay,
          api \in Apis, save_ok \in BOOLEAN :
        /\ start_date <= end_date
        /\ LET r == fetch_with_cache(cache_file, api, start_date, end_date,
                                     save_ok)
           IN  /\ op' = "fetch_daily"
               /\ args' = [start_date |-> start_date, end_date |-> end_date,
                           tickers |-> None, api |-> api]
               /\ ret' = r.result
               /\ cache_file' = r.file
    /\ UNCHANGED <<procs, run_lock>>

\* the cache file is damaged on disk between two runs
CorruptCache ==
    /\ Idle
    /\ cache_file.exists /\ cache_file.readable
    /\ cache_file' = [cache_file EXCEPT !.readable = FALSE]
    /\ UNCHANGED <<op, args, ret, procs, run_lock>>

NextIngest == CallRequestWithRetry \/ CallFetchDaily \/ CorruptCache \/ Return

SpecIngest == InitIdle /\ [][NextIngest]_vars

(***************************************************************************)
(* pipeline/model.py, predict: the imputation of the prediction frame, the *)
(* scaler's transform and the linear model's prediction.  A frame has the  *)
(* feature columns `columns` and rows giving each of them a value or None  *)
(* (NaN); a TrainResult carries its feature names, the fitted scaler       *)
(* (mean_ is the mean of the training rows, scale_ their deviation) and    *)
(* the fitted model.                                                       *)
(***************************************************************************)

\* the largest number of rows of a prediction frame
MaxPredRows == 2

\* Series.mean(): the mean of the non-missing values, NaN when there is none
ColumnMean(vals) ==
    LET present == SelectSeq(vals, LAMBDA v : v # None)
    IN  IF present = <<>> THEN None
        ELSE Some(SumSeq([i \in DOMAIN present |-> present[i][1]])
                  \div Len(present))

\* feat_df[col] after the loop of predict: 0.0 everywhere for an absent
\* column, else fillna(feat_df[col].mean())
FilledColumn(frame, col) ==
    IF col \notin frame.columns THEN [i \in DOMAIN frame.rows |-> Some(0)]
    ELSE LET vals == [i \in DOMAIN frame.rows |-> frame.rows[i][col]]
         IN  [i \in DOMAIN vals |->
                IF vals[i] = None THEN ColumnMean(vals) ELSE vals[i]]

\* result.scaler.transform and result.model.predict on one row of X
PredictRow(result, xrow) ==
    SumSeq([k \in DOMAIN xrow |->
              result.model.coef_[k]
              * ((xrow[k] - result.scaler.mean_[k]) \div result.scaler.scale_[k])])
    + result.model.intercept_

\* predict: the library raises ValueError on a frame without rows and on a
\* NaN left in X
predict(result, frame) ==
    LET cols == [k \in DOMAIN result.feature_names |->
                    FilledColumn(frame, result.feature_names[k])]
        X == [i \in DOMAIN frame.rows |-> [k \in DOMAIN cols |-> cols[k][i]]]
    IN  IF frame.rows = <<>> THEN Raise("ValueError")
        ELSE IF \E i \in DOMAIN X : \E k \in DOMAIN cols : X[i][k] = None
        THEN Raise("ValueError")
        ELSE Ok([i \in DOMAIN X |->
                    PredictRow(result, [k \in DOMAIN cols |-> X[i][k][1]])])

\* a feature value of a prediction frame: missing, 0.0 or 0.03
PredValues == {None, Some(0), Some(E4(300))}

PredFrames ==
    UNION { { [columns |-> columns, rows |-> rows] :
                rows \in SeqsOfLen([columns -> PredValues], n) } :
            columns \in {AllColumns, {"ret_1d"}}, n \in 0..MaxPredRows }

\* TrainResults of two features with coefficients 2 and 1: the training mean
\* of ret_1d is 0.0 or 0.01, its deviation 1 or 2
TrainResults ==
    { [feature_names |-> FeatureNames,
       model |-> [coef_ |-> <<2, 1>>, intercept_ |-> 0],
       scaler |-> [mean_ |-> <<m, E4(100)>>, scale_ |-> <<sd, 1>>]] :
        m \in {0, E4(100)}, sd \in {1, 2} }

\* ret: what predict returned, and the TrainResult's scaler after the call
CallPredict ==
    /\ Idle /\ UNCHANGED world
    /\ \E result \in TrainResults, features \in PredFrames :
        /\ op' = "predict"
        /\ args' = [result |-> result, features |-> features]
        /\ ret' = [r |-> predict(result, features), scaler |-> result.scaler]

NextModel == CallPredict \/ Return

SpecModel == InitIdle /\ [][NextModel]_vars

(***************************************************************************)
(* What the core functions do to the objects they are handed.  A heap is a *)
(* sequence of objects: a frame gives each column "absent", "caller" (the  *)
(* caller's values) or "callee" (values assigned during the call), and a   *)
(* ticker list is itself.  The body of a function is the sequence of its   *)
(* statements that create, bind or assign frames: boolean indexing,        *)
(* dropna and sort_values ("filter") and .copy() and set() ("copy") bind a *)
(* name to a new object, df[col] = ... ("setcol") assigns into the object  *)
(* the name is bound to, and a call hands an object over as `features`.    *)
(***************************************************************************)

FrameCols ==
    {"ret_1d", "ret_20d", TARGET_COL, "_pred", "_score", "_is_new",
     "_turnover_penalty", "_adj_score"}

FrameVars ==
    {"features", "prev_watchlist", "df", "train_df", "test_df", "sub_df",
     "feat_df", "day_df", "day_features", "df_notna", "prev_set", "selected"}

St(kind, dst, src, col) == [kind |-> kind, dst |-> dst, src |-> src, col |-> col]

\* model.py, train_model
TrainModelBody ==
    <<St("filter", "train_df", "features", ""), St("copy", "train_df", "train_df", ""),
      St("setcol", "train_df", "", "ret_1d"), St("setcol", "train_df", "", "ret_20d")>>

\* model.py, predict
PredictBody ==
    <<St("copy", "feat_df", "features", ""),
      St("setcol", "feat_df", "", "ret_1d"), St("setcol", "feat_df", "", "ret_20d")>>

\* gates.py, gate_walk_forward and gate_ticker_split_cv: the same frame
\* statements, one train/test split
SplitGateBody ==
    <<St("filter", "df", "features", ""), St("copy", "df", "df", ""),
      St("filter", "train_df", "df", ""), St("filter", "test_df", "df", ""),
      St("call", "", "train_df", "train_model"), St("call", "", "test_df", "predict")>>

\* gates.py, gate_cost_test
CostTestBody ==
    <<St("filter", "df", "features", ""), St("copy", "df", "df", ""),
      St("call", "", "df", "train_model"), St("call", "", "df", "predict"),
      St("copy", "df", "df", ""), St("setcol", "df", "", "_pred")>>

\* gates.py, gate_param_stability: one window
ParamStabilityBody ==
    <<St("filter", "df", "features", ""), St("copy", "df", "df", ""),
      St("filter", "sub_df", "df", ""), St("call", "", "sub_df", "train_model")>>

\* gates.py, gate_leak_detection
LeakDetectionBody == <<St("filter", "df_notna", "features", "")>>

\* gates.py, run_all_gates
RunAllGatesBody ==
    <<St("filter", "day_features", "features", ""),
      St("call", "", "features", "gate_walk_forward"),
      St("call", "", "features", "gate_ticker_split_cv"),
      St("call", "", "features", "gate_cost_test"),
      St("call", "", "features", "gate_param_stability"),
      St("call", "", "features", "gate_leak_detection")>>

\* watchlist.py, build_watchlist
BuildWatchlistBody ==
    <<St("filter", "day_df", "features", ""), St("copy", "day_df", "day_df", ""),
      St("copy", "day_df", "day_df", ""), St("setcol", "day_df", "", "_score"),
      St("filter", "day_df", "day_df", ""),
      St("copy", "prev_set", "prev_watchlist", ""),
      St("setcol", "day_df", "", "_is_new"),
      St("setcol", "day_df", "", "_turnover_penalty"),
      St("setcol", "day_df", "", "_adj_score"),
      St("filter", "day_df", "day_df", ""),
      St("filter", "selected", "day_df", "")>>

Functions ==
    {"run_all_gates", "gate_walk_forward", "gate_ticker_split_cv",
     "gate_cost_test", "gate_param_stability", "gate_leak_detection",
     "train_model", "predict", "build_watchlist"}

Body(fn) ==
    CASE fn = "train_model" -> TrainModelBody
      [] fn = "predict" -> PredictBody
      [] fn \in {"gate_walk_forward", "gate_ticker_split_cv"} -> SplitGateBody
      [] fn = "gate_cost_test" -> CostTestBody
      [] fn = "gate_param_stability" -> ParamStabilityBody
      [] fn = "gate_leak_detection" -> LeakDetectionBody
      [] fn = "run_all_gates" -> RunAllGatesBody
      [] fn = "build_watchlist" -> BuildWatchlistBody

Bound(heap, env) == [heap |-> heap, env |-> env]

\* frame[mask], dropna, sort_values: a new object with the source's content
Filter(heap, env, dst, src) ==
    Bound(Append(heap, heap[env[src]]), [env EXCEPT ![dst] = Len(heap) + 1])

\* Mutation: .copy() hands back the object itself
Copy_Alias(heap, env, dst, src) == Bound(heap, [env EXCEPT ![dst] = env[src]])

\* frame.copy(), set(list): a new object with the source's content
Copy(heap, env, dst, src) ==
    Bound(Append(heap, heap[env[src]]), [env EXCEPT ![dst] = Len(heap) + 1])

\* df[col] = ...: assigns the column in the object the name is bound to
SetCol(heap, env, dst, col) ==
    Bound([heap EXCEPT ![env[dst]] = [@ EXCEPT ![col] = "callee"]], env)

RECURSIVE Steps(_, _, _)
\* the heap after the statements (a heap without objects runs nothing)
Steps(stmts, heap, env) ==
    IF heap = <<>> \/ stmts = <<>> THEN heap
    ELSE LET st == Head(stmts)
             b == CASE st.kind = "filter" -> Filter(heap, env, st.dst, st.src)
                    [] st.kind = "copy" -> Copy(heap, env, st.dst, st.src)
                    [] st.kind = "setcol" -> SetCol(heap, env, st.dst, st.col)
                    [] st.kind = "call" ->
                        Bound(Steps(Body(st.col), heap,
                                    [v \in FrameVars |->
                                        IF v = "features" THEN env[st.src] ELSE 0]),
                              env)
         IN  Steps(Tail(stmts), b.heap, b.env)

\* the caller's feature tables: with or without ret_20d and the target, and
\* one that already has a _score column
CallerTables ==
    { [c \in FrameCols |-> IF c \in cols THEN "caller" ELSE "absent"] :
        cols \in {AllColumns \cup {TARGET_COL}, {"ret_1d", TARGET_COL},
                  AllColumns, AllColumns \cup {TARGET_COL, "_score"}} }

\* a core function runs on the caller's table (object 1) and previous
\* watchlist (object 2) and ends after `done` statements: at its end, or
\* earlier by a return or an exception
CallCoreFunction ==
    /\ Idle /\ UNCHANGED world
    /\ \E fn \in Functions, features \in CallerTables,
          prev_watchlist \in WlPrevWatchlists :
        \E done \in 1..Len(Body(fn)) :
            /\ op' = "core_function"
            /\ args' = [fn |-> fn, features |-> features,
                        prev_watchlist |-> prev_watchlist, done |-> done]
            /\ ret' = Steps(SubSeq(Body(fn), 1, done),
                            <<features, prev_watchlist>>,
                            [v \in FrameVars |->
                                IF v = "features" THEN 1
                                ELSE IF v = "prev_watchlist" THEN 2 ELSE 0])

NextFrames == CallCoreFunction \/ Return

SpecFrames == InitIdle /\ [][NextFrames]_vars

(***************************************************************************)
(* Claims about run_all_gates                                              *)
(***************************************************************************)

Returned(name) == op = name /\ ret.ok

\* the thresholds run_all_gates reads from the gate_cfg of the call
CfgMinEligible == CfgGet(args.gate_cfg, "min_eligible_stocks", 5)

CfgMissingThreshold == CfgGet(args.gate_cfg, "missing_rate_threshold", (20 * One) \div 100)

CfgConfidence == CfgGet(args.gate_cfg, "confidence_threshold", (5 * One) \div 1000)

CfgCostBps == CfgGet(args.gate_cfg, "cost_bps", <<5, 15>>)

\* the IC the walk_forward gate reported, 0.0 when it reported None
ReportedWfIc == WfIcOrZero(DictGet(ret.val.gates, "walk_forward"))

EveryGatePassed == \A i \in 1..Len(ret.val.gates) : ret.val.gates[i].val.passed

\* C1: run_all_gates returns all_passed = True iff n_eligible >= min_eligible,
\* missing_rate <= missing_rate_threshold, every gate of the gates mapping
\* passed and the walk-forward IC (0.0 when None) >= confidence_threshold;
\* otherwise all_passed = False and rejection_reasons is non-empty.
C1_AllPassedIff ==
    Returned("run_all_gates") =>
        /\ ret.val.all_passed <=>
              /\ ret.val.n_eligible >= CfgMinEligible
              /\ ret.val.missing_rate <= CfgMissingThreshold
              /\ EveryGatePassed
              /\ ReportedWfIc >= CfgConfidence
        /\ ~ret.val.all_passed => ret.val.rejection_reasons # <<>>

\* C1 witness: a call that returned all_passed = True under the default
\* configuration
C1_Witness ==
    /\ Returned("run_all_gates") /\ args.gate_cfg = <<>>
    /\ ret.val.all_passed /\ ret.val.rejection_reasons = <<>>
    /\ Len(ret.val.gates) = 6

\* Where a reason stands in a list without repetition (0: nowhere)
IndexOf(xs, x) == IF \E i \in 1..Len(xs) : xs[i] = x
                  THEN CHOOSE i \in 1..Len(xs) : xs[i] = x ELSE 0

\* The reasons of all checks of the call, failed or not, in the order the
\* claim fixes: eligibility, missing rate, walk_forward, ticker_split_cv, the
\* cost sub-gates in configured order, param_stability, leak_detection,
\* confidence.
ChecksInOrder ==
    LET g(name) == DictGet(ret.val.gates, name)
        costs == Dedup([i \in 1..Len(CfgCostBps) |-> CostName(CfgCostBps[i])], {})
    IN  <<[failed |-> ret.val.n_eligible < CfgMinEligible,
           reason |-> EligibleReason(ret.val.n_eligible, CfgMinEligible)],
          [failed |-> ret.val.missing_rate > CfgMissingThreshold,
           reason |-> MissingReason(ret.val.missing_rate, CfgMissingThreshold)],
          [failed |-> ~g("walk_forward").passed,
           reason |-> GateReason("walk_forward", g("walk_forward"))],
          [failed |-> ~g("ticker_split_cv").passed,
           reason |-> GateReason("ticker_split_cv", g("ticker_split_cv"))]>>
        \o [i \in 1..Len(costs) |->
               [failed |-> ~g(costs[i]).passed, reason |-> GateReason(costs[i], g(costs[i]))]]
        \o <<[failed |-> ~g("param_stability").passed,
              reason |-> GateReason("param_stability", g("param_stability"))],
             [failed |-> ~g("leak_detection").passed,
              reason |-> GateReason("leak_detection", g("leak_detection"))],
             [failed |-> ReportedWfIc < CfgConfidence,
              reason |-> ConfidenceReason(ReportedWfIc, CfgConfidence)]>>

\* C6: rejection_reasons lists exactly the failing checks, in the order
\* pre-flight eligibility, pre-flight missing-rate, walk_forward,
\* ticker_split_cv, each cost sub-gate in configured order, param_stability,
\* leak_detection, confidence, and holds no string twice.
C6_ReasonsInEvaluationOrder ==
    Returned("run_all_gates") =>
        LET rs == ret.val.rejection_reasons
            failing == SelectSeq(ChecksInOrder, LAMBDA c : c.failed)
        IN  /\ rs = [i \in 1..Len(failing) |-> failing[i].reason]
            /\ \A i, j \in 1..Len(rs) : i < j => rs[i] # rs[j]

\* C6 witness: every check fails under a configuration whose cost levels
\* are 15, 5, 15: nine reasons, cost_15bps before cost_5bps
C6_Witness ==
    /\ Returned("run_all_gates") /\ CfgCostBps = <<15, 5, 15>>
    /\ Len(ret.val.rejection_reasons) = 9
    /\ \A i \in 1..9 : ChecksInOrder[i].failed
    /\ IndexOf(ret.val.rejection_reasons, GateReason("cost_15bps", DictGet(ret.val.gates, "cost_15bps"))) = 5
    /\ IndexOf(ret.val.rejection_reasons, GateReason("cost_5bps", DictGet(ret.val.gates, "cost_5bps"))) = 6

\* C7: whenever the walk-forward IC (0.0 when the gate reported None) is
\* below confidence_threshold, run_all_gates adds the confidence reason and
\* all_passed is False, also when the walk_forward gate itself passed.
C7_ConfidenceIsSecondBar ==
    (Returned("run_all_gates") /\ ReportedWfIc < CfgConfidence) =>
        /\ IndexOf(ret.val.rejection_reasons,
                   ConfidenceReason(ReportedWfIc, CfgConfidence)) > 0
        /\ ~ret.val.all_passed

\* C7 witness: the walk_forward gate passed, every other check passed too,
\* and the confidence reason alone makes the verdict False
C7_Witness ==
    /\ Returned("run_all_gates")
    /\ DictGet(ret.val.gates, "walk_forward").passed
    /\ EveryGatePassed
    /\ ReportedWfIc < CfgConfidence
    /\ ~ret.val.all_passed
    /\ ret.val.rejection_reasons = <<ConfidenceReason(ReportedWfIc, CfgConfidence)>>

(***************************************************************************)
(* Claims about the individual gates                                       *)
(***************************************************************************)

\* the statistic each gate compares with its threshold, from the call's inputs
WfMedianIc ==
    LET folds == WfFolds(args.D.n_dates, args.n_splits)
    IN  Median([i \in 1..Len(folds) |-> FoldIC(args.D, folds[i])])

WfEvaluated == op = "gate_walk_forward" /\ ret.r.details.ic # None

CvEvaluated == op = "gate_ticker_split_cv" /\ ret.r.details.ic # None

StabEvaluated == op = "gate_param_stability" /\ ret.r.details.cosine_sim # None

StabMeanSim ==
    Mean(PairSims(TrainedWindows(args.D, args.D.n_dates \div args.n_windows,
                                 args.D.win_fit)))

CostEvaluated == op = "gate_cost_test" /\ args.D.n_dates > 0 /\ args.D.full_fit.ok

CostCumRet(bps) == SumSeq(DailyReturns(args.D.days, (bps * One) \div 10000))

\* C8: a statistic exactly equal to its threshold fails: median fold IC =
\* threshold, held-out IC = threshold, mean cosine similarity = threshold and
\* cumulative net return = 0 each give passed = False.
C8_BoundaryFails ==
    /\ (WfEvaluated /\ WfMedianIc = args.t) => ~ret.r.passed
    /\ (CvEvaluated /\ args.D.cv_fit.val = args.t) => ~ret.r.passed
    /\ (StabEvaluated /\ StabMeanSim = args.t) => ~ret.r.passed
    /\ CostEvaluated =>
          \A i \in 1..Len(ret) :
              CostCumRet(ret[i].val.details.cost_bps) = 0 => ~ret[i].val.passed

\* C8 witness: a walk-forward call over three folds whose median IC is the
\* default threshold 0.01 itself, reported as ic = threshold, passed = False
C8_Witness ==
    /\ WfEvaluated /\ args.n_splits = N_SPLITS
    /\ args.t = One \div 100 /\ WfMedianIc = args.t
    /\ ret.r.details.ic = Some(args.t) /\ ~ret.r.passed

ThresholdedGates == {"gate_walk_forward", "gate_ticker_split_cv", "gate_param_stability"}

\* C9: for fixed data, a gate that fails at threshold t fails at every
\* threshold t2 > t (gate_walk_forward, gate_ticker_split_cv,
\* gate_param_stability).
C9_ThresholdMonotone ==
    (op \in ThresholdedGates /\ args.t2 > args.t /\ ~ret.r.passed) => ~ret.r2.passed

\* C9 witness: a gate evaluated on sufficient data that passes at t and
\* fails at the higher t2
C9_Witness ==
    /\ WfEvaluated \/ CvEvaluated \/ StabEvaluated
    /\ args.t2 > args.t /\ ret.r.passed /\ ~ret.r2.passed

(***************************************************************************)
(* Claims about run_pipeline                                               *)
(***************************************************************************)

RanPipeline == op = "run_pipeline"

\* the output directory of the call's trade date and the files in it
TdStr == DateStr(next_trade_date(args.as_of))

OutDir == "output/" \o TdStr

Written(name) == ret.ok /\ DictHas(ret.val.files, OutDir \o "/" \o name)

FileContent(name) == DictGet(ret.val.files, OutDir \o "/" \o name)

DecisionCard == FileContent("decision_card_" \o TdStr \o ".json")

OutputsWritten ==
    /\ Written("decision_card_" \o TdStr \o ".json")
    /\ Written("watchlist_50_" \o TdStr \o ".csv")
    /\ Written("quality_report_" \o TdStr \o ".json")
    /\ Written("manifest_" \o args.env.run_id \o ".json")
    /\ Written("report_" \o TdStr \o ".md")

Contains(xs, x) == \E i \in 1..Len(xs) : xs[i] = x

\* the call reached the full-dataset train_model call, and that call raised
FullTrainRaised ==
    /\ RanPipeline /\ args.loader.bars # None
    /\ ~train_model(NRows(args.loader.bars[1]), args.loader.bars[1].full_fit).ok

\* C2: in every completed run the action of the decision card and the
\* action handed to the notification payload are both "TRADE" when the gate
\* verdict all_passed is True and both "NO_TRADE" otherwise.
C2_ActionsFollowVerdict ==
    (RanPipeline /\ ret.ok) =>
        LET action == IF ret.val.gate_result.all_passed THEN "TRADE" ELSE "NO_TRADE"
        IN  /\ DecisionCard.action = action
            /\ ret.val.slack_payload.text.action = action

\* C2 witness: a completed run whose verdict is True, with TRADE on the card
\* and in the payload and a non-empty top-3
C2_Witness ==
    /\ RanPipeline /\ ret.ok /\ ret.val.gate_result.all_passed
    /\ DecisionCard.action = "TRADE"
    /\ ret.val.slack_payload.text.action = "TRADE"
    /\ Len(DecisionCard.top3) = 3

\* C3: whenever the full-dataset train_model call raises, the run does not
\* abort: the watchlist is empty, the verdict is all_passed = False with a
\* non-empty rejection_reasons (action NO_TRADE), the output files are
\* written and the output directory is returned.
C3_TrainFailureGivesNoTrade ==
    FullTrainRaised =>
        /\ ret.ok
        /\ ret.val.out_dir = OutDir
        /\ ret.val.watchlist = <<>>
        /\ ~ret.val.gate_result.all_passed
        /\ ret.val.gate_result.rejection_reasons # <<>>
        /\ DecisionCard.action = "NO_TRADE"
        /\ OutputsWritten

\* C4: a run whose as_of is no business day returns the output directory
\* and writes a decision card with action NO_TRADE, "non_trading_day" among
\* its no_trade_reasons and an empty top3, a quality report and a manifest.
C4_NonTradingDayShortCircuits ==
    (RanPipeline /\ ~is_business_day(args.as_of)) =>
        /\ ret.ok
        /\ ret.val.out_dir = OutDir
        /\ DecisionCard.action = "NO_TRADE"
        /\ Contains(DecisionCard.no_trade_reasons, "non_trading_day")
        /\ DecisionCard.top3 = <<>>
        /\ Written("quality_report_" \o TdStr \o ".json")
        /\ Written("manifest_" \o args.env.run_id \o ".json")

\* C5: a run on a business day whose loader returns zero bars returns the
\* output directory and writes a decision card with action NO_TRADE and
\* "no_data" among its no_trade_reasons, a quality report, and a manifest
\* holding run_id, code_hash, inputs_digest, as_of, trade_date and params.
C5_EmptyBarsShortCircuits ==
    (RanPipeline /\ is_business_day(args.as_of) /\ args.loader.bars = None) =>
        /\ ret.ok
        /\ ret.val.out_dir = OutDir
        /\ DecisionCard.action = "NO_TRADE"
        /\ Contains(DecisionCard.no_trade_reasons, "no_data")
        /\ Written("quality_report_" \o TdStr \o ".json")
        /\ Written("manifest_" \o args.env.run_id \o ".json")
        /\ {"run_id", "code_hash", "inputs_digest", "as_of", "trade_date", "params"}
              \subseteq DOMAIN FileContent("manifest_" \o args.env.run_id \o ".json")

(***************************************************************************)
(* Claims about exceptions and insufficient data inside the gates          *)
(***************************************************************************)

\* the folds / hold-out / full fit / windows of the call whose training raised
RaisedFolds ==
    LET folds == IF args.D.n_dates < N_SPLITS * 2 THEN <<>>
                 ELSE WfFolds(args.D.n_dates, N_SPLITS)
    IN  { i \in 1..Len(folds) :
            ~train_model(Cardinality(folds[i].train_dates) * args.D.n_tickers,
                         args.D.fold_fit[folds[i].k + 1]).ok }

CvRaised == args.D.n_tickers >= 5 /\ ~args.D.cv_fit.ok

CostFit == train_model(NRows(args.D), args.D.full_fit)

RaisedWindows ==
    IF args.D.n_dates \div N_WINDOWS < 10 THEN {}
    ELSE { i \in 1..N_WINDOWS : ~args.D.win_fit[i].ok }

Gate(name) == DictGet(ret.val.gates, name)

\* the exception texts train_model and predict raise on the feature tables
TrainingErrors ==
    {FitError.err, "No training rows with known forward_return_5d"}

\* no exception of train_model or predict left the call
NoTrainingErrorEscapes == ret.ok \/ ret.err \notin TrainingErrors

\* the ways a gate's reason embeds an exception text
EmbedsText(reason, err) ==
    reason \in {err, "ticker CV failed: " \o err,
                "model train failed for cost test: " \o err}

\* C11 as stated: an exception raised by train_model or predict inside a
\* walk-forward fold, the ticker-split CV, the cost test or a stability
\* window never leaves run_all_gates and makes that gate's result
\* passed = False with the exception text in its reason.
C11_GateExceptionFailsGate ==
    op = "run_all_gates" =>
        /\ NoTrainingErrorEscapes
        /\ ret.ok =>
           /\ RaisedFolds # {} =>
                 /\ ~Gate("walk_forward").passed
                 /\ EmbedsText(Gate("walk_forward").reason, FitError.err)
           /\ CvRaised =>
                 /\ ~Gate("ticker_split_cv").passed
                 /\ EmbedsText(Gate("ticker_split_cv").reason, args.D.cv_fit.err)
           /\ ~CostFit.ok =>
                 \A i \in 1..Len(CfgCostBps) :
                     /\ ~Gate(CostName(CfgCostBps[i])).passed
                     /\ EmbedsText(Gate(CostName(CfgCostBps[i])).reason, CostFit.err)
           /\ RaisedWindows # {} =>
                 /\ ~Gate("param_stability").passed
                 /\ EmbedsText(Gate("param_stability").reason, FitError.err)

\* C11 amended: such an exception never leaves run_all_gates.  In the
\* ticker-split CV and in the cost test it makes the gate (every configured
\* cost sub-gate) passed = False with the exception text in the reason; a
\* walk-forward fold that raised contributes IC 0.0 to the median, and a
\* stability window that raised is left out: the gate is computed from the
\* windows that trained and fails with "not enough windows trained
\* successfully" when fewer than two did.
C11_GateExceptionIsLocal ==
    op = "run_all_gates" =>
        /\ NoTrainingErrorEscapes
        /\ ret.ok =>
           /\ \A i \in RaisedFolds : Gate("walk_forward").details.fold_ics[i] = 0
           /\ CvRaised =>
                 /\ ~Gate("ticker_split_cv").passed
                 /\ Gate("ticker_split_cv").reason = "ticker CV failed: " \o args.D.cv_fit.err
           /\ ~CostFit.ok =>
                 \A i \in 1..Len(CfgCostBps) :
                     /\ ~Gate(CostName(CfgCostBps[i])).passed
                     /\ Gate(CostName(CfgCostBps[i])).reason
                           = "model train failed for cost test: " \o CostFit.err
           /\ RaisedWindows # {} =>
                 IF N_WINDOWS - Cardinality(RaisedWindows) < 2
                 THEN /\ ~Gate("param_stability").passed
                      /\ Gate("param_stability").reason
                            = "not enough windows trained successfully"
                 ELSE Gate("param_stability").details.n_windows
                         = N_WINDOWS - Cardinality(RaisedWindows)

\* C11 witness: a call in which a fold, the hold-out fit, the full fit and a
\* stability window all raised, and which returned with the walk-forward
\* gate and the stability gate passed
C11_Witness ==
    /\ Returned("run_all_gates")
    /\ RaisedFolds # {} /\ CvRaised /\ ~CostFit.ok /\ RaisedWindows # {}
    /\ Gate("walk_forward").passed /\ Gate("param_stability").passed
    /\ ~Gate("ticker_split_cv").passed

\* a requested feature name that is no column of the call's feature table
MissingRequested ==
    { args.feature_names[i] : i \in 1..Len(args.feature_names) } \ args.D.columns

\* C12: a feature name requested in feature_names that is not a column of
\* the feature table never makes run_all_gates raise: the column is ignored
\* and the call completes with a result.
C12_MissingColumnNeverRaises ==
    (op = "run_all_gates" /\ MissingRequested # {}) => ret.ok

\* every outcome the library calls of a gate could have on one partition
AnyFits(n) == SeqsOfLen({FitError, Ok(One)}, n)

\* C13: too little data is an ordinary gate failure and trains no model:
\* gate_walk_forward with fewer than 2*n_splits dates returns passed = False
\* with details.ic = None; gate_ticker_split_cv with fewer than 5 tickers
\* and gate_param_stability with fewer than 10 dates per window return
\* passed = False with a non-empty reason; each result is the same whatever
\* a training run on the table would have given.
C13_InsufficientDataFails ==
    /\ (op = "gate_walk_forward" /\ args.D.n_dates < 2 * args.n_splits) =>
          /\ ~ret.r.passed /\ ret.r.details.ic = None /\ ret.r.reason # ""
          /\ \A ff \in AnyFits(args.n_splits) :
                gate_walk_forward([args.D EXCEPT !.fold_fit = ff], args.t,
                                  args.n_splits) = ret.r
    /\ (op = "gate_ticker_split_cv" /\ args.D.n_tickers < 5) =>
          /\ ~ret.r.passed /\ ret.r.details.ic = None /\ ret.r.reason # ""
          /\ \A f \in {FitError, Ok(One)} :
                gate_ticker_split_cv([args.D EXCEPT !.cv_fit = f], args.t,
                                     args.test_frac) = ret.r
    /\ (op = "gate_param_stability" /\ args.D.n_dates \div args.n_windows < 10) =>
          /\ ~ret.r.passed /\ ret.r.details.cosine_sim = None /\ ret.r.reason # ""
          /\ \A wf \in AnyFits(args.n_windows) :
                gate_param_stability([args.D EXCEPT !.win_fit = wf], args.t,
                                     args.n_windows) = ret.r

\* C13 witness: four tickers, a hold-out fit that would have given an IC
\* above the threshold, and the gate failed without an IC
C13_Witness ==
    /\ op = "gate_ticker_split_cv" /\ args.D.n_tickers = 4
    /\ args.D.cv_fit.ok /\ args.D.cv_fit.val > args.t
    /\ ~ret.r.passed /\ ret.r.details.ic = None
    /\ ret.r.reason = "too few tickers (4) for ticker-split CV"

\* the requested features that are columns of the call's table and whose
\* correlation with the target is defined and above 0.99 in absolute value
SuspiciousFeatures ==
    { f \in { args.feature_names[i] : i \in 1..Len(args.feature_names) }
              \cap args.D.columns :
        /\ TARGET_COL \in args.D.columns
        /\ args.D.corr[f].defined
        /\ Abs(args.D.corr[f].val) > (99 * One) \div 100 }

\* C14: gate_leak_detection passes iff no row is dated after the decision
\* date and no candidate feature has an absolute correlation above 0.99 with
\* the target; one future-dated row added to a clean table gives
\* passed = False with a non-empty issues list; reason is the issues joined
\* by "; ".
C14_LeakPassesIff ==
    op = "gate_leak_detection" =>
        /\ ret.r.passed <=> (args.D.future_rows = 0 /\ SuspiciousFeatures = {})
        /\ Len(ret.r.details.issues)
              = (IF args.D.future_rows > 0 THEN 1 ELSE 0) + Cardinality(SuspiciousFeatures)
        /\ ret.r.passed => (~ret.r2.passed /\ ret.r2.details.issues # <<>>)
        /\ ret.r.reason = Join("; ", ret.r.details.issues)
        /\ ret.r2.reason = Join("; ", ret.r2.details.issues)

\* C14 witness: a clean table passes, and with one future-dated row added
\* it fails with that one issue as its reason
C14_Witness ==
    /\ op = "gate_leak_detection" /\ TARGET_COL \in args.D.columns
    /\ args.D.corr["ret_1d"].defined
    /\ ret.r.passed /\ ret.r.reason = ""
    /\ ~ret.r2.passed
    /\ ret.r2.details.issues = <<"1 rows have as_of > cutoff (day7)">>
    /\ ret.r2.reason = "1 rows have as_of > cutoff (day7)"

(***************************************************************************)
(* Claims about build_watchlist                                            *)
(***************************************************************************)

BuiltWatchlist == op = "build_watchlist"

PrevSet == { args.prev_watchlist[i] : i \in 1..Len(args.prev_watchlist) }

DayTickers == { args.day_rows[i].ticker : i \in 1..Len(args.day_rows) }

NewCount == Cardinality({ i \in 1..Len(ret) : ret[i].is_new })

RetainedCount == Cardinality({ i \in 1..Len(ret) : ~ret[i].is_new })

\* the rotation constraint as build_watchlist applies it: a non-empty
\* previous watchlist with at least min_retained tickers
RotationApplies == PrevSet # {} /\ Cardinality(PrevSet) >= args.cfg.min_retained

\* C15: the list build_watchlist returns has at most cfg.size entries.
C15_SizeBound == BuiltWatchlist => Len(ret) <= args.cfg.size

\* C15 witness: more rows than cfg.size on the decision date, and exactly
\* cfg.size entries returned
C15_Witness ==
    /\ BuiltWatchlist /\ Len(args.day_rows) > args.cfg.size
    /\ Len(ret) = args.cfg.size

\* C16 as stated: whenever the previous watchlist has at least
\* cfg.min_retained tickers, at most cfg.max_new returned entries are new.
C16_NewBoundedByMaxNew ==
    (BuiltWatchlist /\ Cardinality(PrevSet) >= args.cfg.min_retained) =>
        NewCount <= args.cfg.max_new

\* C16 amended: whenever the previous watchlist is not empty and has at
\* least cfg.min_retained tickers, at most cfg.max_new returned entries are
\* new; an empty previous watchlist is no previous watchlist, whatever
\* cfg.min_retained is.
C16_NewBoundedUnderRotation ==
    (BuiltWatchlist /\ RotationApplies) => NewCount <= args.cfg.max_new

\* C16 witness: the rotation constraint applies, more new tickers than
\* cfg.max_new have a row, and exactly cfg.max_new > 0 entries are new
C16_Witness ==
    /\ BuiltWatchlist /\ RotationApplies
    /\ Cardinality(DayTickers \ PrevSet) > args.cfg.max_new
    /\ args.cfg.max_new > 0 /\ NewCount = args.cfg.max_new

\* C17: when the previous watchlist has at least cfg.min_retained tickers
\* and at least cfg.min_retained of them have a row on the decision date,
\* at least cfg.min_retained returned entries have is_new = False.
C17_MinRetainedKept ==
    (/\ BuiltWatchlist
     /\ Cardinality(PrevSet) >= args.cfg.min_retained
     /\ Cardinality(PrevSet \cap DayTickers) >= args.cfg.min_retained) =>
        RetainedCount >= args.cfg.min_retained

\* the row of the decision date an entry was made from
RowOf(ticker) == CHOOSE row \in { args.day_rows[i] : i \in 1..Len(args.day_rows) } :
                     row.ticker = ticker

\* the raw composite score of a row under the call's coefficients and the
\* day's market regime
RawScore(row) ==
    compute_scores(row, args.signal_features, args.model_coef,
                   args.day_rows[1].regime[1])

\* C18: an entry has is_new = True exactly when its ticker is absent from
\* the previous watchlist; a new entry carries turnover_penalty =
\* cfg.turnover_penalty and a retained entry 0.0; the entry's score is its
\* raw composite score minus that penalty.
C18_PenaltyOnNewOnly ==
    BuiltWatchlist =>
        \A i \in 1..Len(ret) :
            /\ ret[i].is_new <=> ret[i].ticker \notin PrevSet
            /\ ret[i].is_new => ret[i].turnover_penalty = args.cfg.turnover_penalty
            /\ ~ret[i].is_new => ret[i].turnover_penalty = 0
            /\ ret[i].score = RawScore(RowOf(ret[i].ticker)) - ret[i].turnover_penalty

\* C18 witness: a list holding a new and a retained entry, the new one with
\* a score below its raw composite score
C18_Witness ==
    /\ BuiltWatchlist /\ NewCount > 0 /\ RetainedCount > 0
    /\ \E i \in 1..Len(ret) :
          /\ ret[i].is_new /\ ret[i].turnover_penalty = One \div 100
          /\ ret[i].score = RawScore(RowOf(ret[i].ticker)) - One \div 100
          /\ RawScore(RowOf(ret[i].ticker)) > 0

\* the adjusted score of a row: raw score minus the penalty of a new ticker
AdjScore(row) ==
    RawScore(row) - (IF row.ticker \in PrevSet THEN 0 ELSE args.cfg.turnover_penalty)

\* ret holds the top cfg.size rows by adjusted score: as many entries as
\* there are rows, up to cfg.size, of distinct tickers, each with its row's
\* adjusted score, and no row left out outscores an entry
TopSizeByAdjScore ==
    /\ Len(ret) = Min(args.cfg.size, Len(args.day_rows))
    /\ \A i, j \in 1..Len(ret) : i # j => ret[i].ticker # ret[j].ticker
    /\ \A i \in 1..Len(ret) :
          /\ ret[i].ticker \in DayTickers
          /\ ret[i].score = AdjScore(RowOf(ret[i].ticker))
    /\ \A t \in DayTickers \ { ret[i].ticker : i \in 1..Len(ret) } :
          \A i \in 1..Len(ret) : AdjScore(RowOf(t)) <= ret[i].score

\* C19 as stated: with no previous watchlist, or one of fewer than
\* cfg.min_retained tickers, build_watchlist returns the top cfg.size rows
\* by adjusted score and every returned entry has is_new = True.
C19_NoRotationAllNew ==
    (BuiltWatchlist
        /\ (args.prev_watchlist = <<>> \/ Cardinality(PrevSet) < args.cfg.min_retained)) =>
        /\ TopSizeByAdjScore
        /\ \A i \in 1..Len(ret) : ret[i].is_new

\* C19 amended: with no previous watchlist, or one of fewer than
\* cfg.min_retained tickers, build_watchlist returns the top cfg.size rows
\* by adjusted score; an entry whose ticker is in the previous watchlist is
\* still marked is_new = False, so every entry is new only when no (or an
\* empty) previous watchlist is supplied.
C19_NoRotationTopSize ==
    (BuiltWatchlist
        /\ (args.prev_watchlist = <<>> \/ Cardinality(PrevSet) < args.cfg.min_retained)) =>
        /\ TopSizeByAdjScore
        /\ \A i \in 1..Len(ret) : ret[i].is_new <=> ret[i].ticker \notin PrevSet
        /\ args.prev_watchlist = <<>> => \A i \in 1..Len(ret) : ret[i].is_new

\* C19 witness: a previous watchlist of one ticker, cfg.min_retained = 2,
\* more rows than cfg.size, and that ticker returned as a retained entry
\* ahead of a new one of a higher raw score
C19_Witness ==
    /\ BuiltWatchlist /\ args.prev_watchlist = <<"T1">> /\ args.cfg.min_retained = 2
    /\ Len(args.day_rows) > args.cfg.size /\ Len(ret) = args.cfg.size
    /\ ~ret[1].is_new /\ ret[1].ticker = "T1"
    /\ Len(ret) > 1 /\ ret[2].is_new
    /\ RawScore(RowOf(ret[2].ticker)) > RawScore(RowOf("T1"))

\* C20: the returned list is in non-increasing order of entry score, with
\* and without the rotation constraint.
C20_SortedByScore ==
    BuiltWatchlist => \A i, j \in 1..Len(ret) : i < j => ret[i].score >= ret[j].score

\* C20 witness: the rotation constraint applies and the merged list has a
\* new entry ahead of a retained one, three scores strictly falling
C20_Witness ==
    /\ BuiltWatchlist /\ RotationApplies /\ Len(ret) >= 3
    /\ ret[1].is_new /\ ~ret[2].is_new
    /\ ret[1].score > ret[2].score /\ ret[2].score > ret[3].score

(***************************************************************************)
(* Claims about the written decision card                                  *)
(***************************************************************************)

\* the decision card a write_outputs call wrote
WrittenCard ==
    DictGet(ret, args.out_dir \o "/decision_card_" \o args.td_str \o ".json")

\* C21: in the decision card written by write_outputs,
\* key_metrics.confidence is >= 0 for every wf_ic, negative ones included,
\* while key_metrics.wf_ic keeps the raw, unclipped wf_ic.
C21_ConfidenceNonNegative ==
    op = "write_outputs" =>
        /\ WrittenCard.key_metrics.confidence >= 0
        /\ WrittenCard.key_metrics.wf_ic = PyRound(args.wf_ic, 6)

(***************************************************************************)
(* Further claims about the individual gates                               *)
(***************************************************************************)

\* C22: whenever gate_param_stability reports a non-null details.cosine_sim,
\* the value lies in [0, 1], also when the coefficient vectors of two
\* windows point in opposite directions.
C22_CosineSimInUnitRange ==
    StabEvaluated =>
        /\ ret.r.details.cosine_sim[1] >= 0
        /\ ret.r.details.cosine_sim[1] <= One


(***************************************************************************)
(* Claims about the `run` command's lock                                   *)
(***************************************************************************)

InBody(p) == procs[p].pc = "body"

HoldsLock(p) == procs[p].pc \in {"locked", "body", "finally"}

RetryCalled == op = "request_with_retry"

Is403(resp) == ~resp.raised /\ resp.status = 403

Successful(resp) == ~resp.raised /\ resp.status < 400 /\ resp.body_ok

\* a RequestException was raised in the attempt: by requests.get, by
\* raise_for_status (HTTPError on a 4xx/5xx status) or by resp.json()
RequestExceptionRaised(resp) ==
    resp.raised \/ resp.status >= 400 \/ ~resp.body_ok

Retryable(resp) ==
    \/ ~resp.raised /\ (resp.status = 429 \/ resp.status >= 500)
    \/ RequestExceptionRaised(resp)

\* C24: a call of _request_with_retry makes between one and three requests
\* and ends in exactly one of three ways: it returns the body of a successful
\* answer, it raises JQuantsAuthError on the first 403 answer, or it raises
\* RuntimeError after a third failed attempt; an attempt is followed by
\* another one only if it was answered 429 or 5xx or raised a
\* RequestException (the HTTPError of raise_for_status included), never
\* after a 403 or a success.
C24_RetryTerminates ==
    RetryCalled =>
        LET n == ret.requests
            last == args.resps[ret.requests]
        IN  /\ n \in 1..MAX_RETRIES
            /\ \/ ret.outcome.ok /\ Successful(last)
               \/ /\ ~ret.outcome.ok /\ ret.outcome.err = "JQuantsAuthError"
                  /\ Is403(last)
               \/ /\ ~ret.outcome.ok /\ ret.outcome.err = "RuntimeError"
                  /\ n = MAX_RETRIES /\ ~Successful(last) /\ ~Is403(last)
            /\ \A i \in 1..(n - 1) :
                /\ ~Is403(args.resps[i])
                /\ ~Successful(args.resps[i])
                /\ Retryable(args.resps[i])

\* a server error and a connection error are retried, the third answer is a
\* 403: JQuantsAuthError after three requests and two sleeps of 1s and 2s
C24_Witness ==
    /\ RetryCalled
    /\ args.resps[1] = Response(500, None, TRUE)
    /\ args.resps[2] = ConnectionError
    /\ Is403(args.resps[3])
    /\ ret.requests = 3
    /\ ret.sleeps = <<1, 2>>
    /\ ~ret.outcome.ok /\ ret.outcome.err = "JQuantsAuthError"

FetchCalled == op = "fetch_daily"

\* the dates of the cache the call read
SeenDays == {ret.seen[i].as_of : i \in DOMAIN ret.seen}

SeenMin == CHOOSE d \in SeenDays : \A e \in SeenDays : d <= e

SeenMax == CHOOSE d \in SeenDays : \A e \in SeenDays : d >= e

\* C25: fetch_daily with a cache asks the API only for dates outside the span
\* of the cache it read (after its latest date up to end_date, or from
\* start_date up to the day before its earliest date; the whole requested
\* range when the cache is empty), asks for nothing when the cache spans
\* [start_date, end_date], and whatever calls came before returns only rows
\* within [start_date, end_date], no two with the same (as_of, ticker).
C25_CacheFetchesOnlyMissing ==
    FetchCalled =>
        /\ \A i \in DOMAIN ret.requests :
            LET d == ret.requests[i]
            IN  IF ret.seen = <<>>
                THEN args.start_date <= d /\ d <= args.end_date
                ELSE \/ SeenMax < d /\ d <= args.end_date
                     \/ args.start_date <= d /\ d < SeenMin
        /\ (/\ ret.seen # <<>>
            /\ SeenMin <= args.start_date
            /\ SeenMax >= args.end_date) => ret.requests = <<>>
        /\ ret.ok =>
            /\ \A i \in DOMAIN ret.val :
                /\ args.start_date <= ret.val[i].as_of
                /\ ret.val[i].as_of <= args.end_date
            /\ \A i, j \in DOMAIN ret.val :
                (/\ ret.val[i].as_of = ret.val[j].as_of
                 /\ ret.val[i].ticker = ret.val[j].ticker) => i = j

\* a warm call: the cache held day 1 only, the call asked the API for days 3
\* and 4 and no other, the answer for day 4 repeated a bar, and four rows of
\* days 3 and 4 came back
C25_Witness ==
    /\ FetchCalled /\ ret.ok
    /\ SeenDays = {1}
    /\ args.start_date = 3 /\ args.end_date = 4
    /\ ret.requests = <<3, 4>>
    /\ Len(args.api[4].val) = 3
    /\ Len(ret.val) = 4
    /\ cache_file.exists /\ Len(cache_file.rows) = 6

(***************************************************************************)
(* Claims about the walk-forward folds                                     *)
(***************************************************************************)

\* the folds of the call in op/args
EvaluatedFolds == WfFolds(args.D.n_dates, args.n_splits)

WfBlockSize == args.D.n_dates \div (args.n_splits + 1)

\* block j (0-based) of the sorted distinct dates 1..n_dates
WfBlock(j) == {d \in 1..args.D.n_dates :
                  j * WfBlockSize < d /\ d <= (j + 1) * WfBlockSize}

\* C26: every fold k that gate_walk_forward evaluates trains on exactly the
\* first k+1 blocks of the sorted dates and tests on exactly block k+1, the
\* blocks all having the same size; so each training date is earlier than
\* each test date and no date serves both in one fold.
C26_FoldsAreChronological ==
    WfEvaluated =>
        /\ Len(ret.r.details.fold_ics) = Len(EvaluatedFolds)
        /\ \A j \in 0..args.n_splits : Cardinality(WfBlock(j)) = WfBlockSize
        /\ \A i \in DOMAIN EvaluatedFolds :
            LET f == EvaluatedFolds[i]
            IN  /\ f.k \in 0..(args.n_splits - 1)
                /\ f.train_dates = UNION {WfBlock(j) : j \in 0..f.k}
                /\ f.test_dates = WfBlock(f.k + 1)
                /\ \A a \in f.train_dates, b \in f.test_dates : a < b
                /\ f.train_dates \cap f.test_dates = {}

\* seven dates in two splits: blocks of two dates, the second fold trains on
\* dates 1..4 and tests on dates 5 and 6, date 7 is in no block
C26_Witness ==
    /\ WfEvaluated
    /\ args.D.n_dates = 7 /\ args.n_splits = 2
    /\ Len(EvaluatedFolds) = 2
    /\ EvaluatedFolds[2].train_dates = 1..4
    /\ EvaluatedFolds[2].test_dates = {5, 6}

(***************************************************************************)
(* Claims about rows without features                                      *)
(***************************************************************************)

\* every configured signal feature of the row is missing
AllFeaturesMissing(row) ==
    \A i \in 1..Len(args.signal_features) :
        row.x[args.signal_features[i]] = None

\* C27: a decision-date row whose configured signal features are all missing
\* never appears in the watchlist build_watchlist returns.
C27_FeaturelessRowDropped ==
    BuiltWatchlist =>
        \A i \in 1..Len(ret) : ~AllFeaturesMissing(RowOf(ret[i].ticker))

(***************************************************************************)
(* Claims about predict                                                    *)
(***************************************************************************)

PredictCalled == op = "predict"

\* the value of row i for the k-th feature once a missing value is replaced
\* by the feature's training mean and an absent column by 0
TrainingMeanFilled(i, k) ==
    LET col == args.result.feature_names[k]
    IN  IF col \notin args.features.columns THEN 0
        ELSE IF args.features.rows[i][col] = None
        THEN args.result.scaler.mean_[k]
        ELSE args.features.rows[i][col][1]

\* C28: predict replaces a missing feature value by that feature's mean over
\* the training rows and an absent feature column by 0, so that its
\* predictions are those of the frame filled that way, and it leaves the
\* TrainResult's scaler as it was.
C28_PredictFillsTrainingMean ==
    (PredictCalled /\ args.features.rows # <<>>) =>
        /\ ret.r.ok
        /\ ret.r.val =
            [i \in DOMAIN args.features.rows |->
                PredictRow(args.result,
                           [k \in DOMAIN args.result.feature_names |->
                               TrainingMeanFilled(i, k)])]
        /\ ret.scaler = args.result.scaler

(***************************************************************************)
(* Claims about the callers' objects                                       *)
(***************************************************************************)

CoreFunctionRan == op = "core_function"

\* C29: after a call of run_all_gates, of a gate, of train_model, of predict
\* or of build_watchlist, the caller's feature table has the columns and
\* values it had before, and the caller's previous-watchlist list has the
\* same elements in the same order.
C29_InputsUnchanged ==
    CoreFunctionRan =>
        /\ ret[1] = args.features
        /\ ret[2] = args.prev_watchlist

\* build_watchlist ran to its end on a table that already had a _score
\* column: the table still has the caller's _score, and the frame the
\* watchlist was selected from has the _score that build_watchlist assigned
C29_Witness ==
    /\ CoreFunctionRan
    /\ args.fn = "build_watchlist" /\ args.done = Len(BuildWatchlistBody)
    /\ args.features["_score"] = "caller"
    /\ ret[1]["_score"] = "caller"
    /\ ret[Len(ret)]["_score"] = "callee"
    /\ ret[Len(ret)]["_adj_score"] = "callee"
    /\ ret[2] = <<"T2", "T1">>

(***************************************************************************)
(* Claims about the cost levels                                            *)
(***************************************************************************)

\* C30: within one call of gate_cost_test, any two sub-gates of cost levels
\* a < b report the same n_days, and the sub-gate of a passes whenever the
\* sub-gate of b does; when the model could not be trained no sub-gate
\* passes at all.
C30_LowerCostPassesFirst ==
    /\ CostEvaluated =>
        \A i, j \in 1..Len(ret) :
            ret[i].val.details.cost_bps < ret[j].val.details.cost_bps =>
                /\ ret[i].val.details.n_days = ret[j].val.details.n_days
                /\ ret[j].val.passed => ret[i].val.passed
    /\ (op = "gate_cost_test" /\ ~CostEvaluated) =>
        \A i \in 1..Len(ret) : ~ret[i].val.passed

\* costs given as [15, 5] over two days, one of them with too few rows: the
\* 15 bps gate fails on a net return of exactly 0, the 5 bps gate passes, and
\* both count the one remaining day
C30_Witness ==
    /\ CostEvaluated
    /\ args.cost_bps_list = <<15, 5>>
    /\ Len(args.D.days) = 2
    /\ Len(ret) = 2
    /\ ret[1].val.details.cost_bps = 15 /\ ~ret[1].val.passed
    /\ ret[2].val.details.cost_bps = 5 /\ ret[2].val.passed
    /\ ret[1].val.details.n_days = 1 /\ ret[2].val.details.n_days = 1

====
